---- MODULE Spec2Model ----
(***************************************************************************)
(* AutoSpendTracker: the extraction-and-commit pipeline.                   *)
(*                                                                         *)
(* Spec         one process running the pipeline (process_emails) again    *)
(*              and again against a mailbox: selection, parsing, the       *)
(*              rate-limited and retried model call, normalisation,        *)
(*              batching and labelling.                                    *)
(* SpecLimiter  several threads calling one rate-limited function          *)
(*              through AdaptiveRateLimiter._wait_if_needed.               *)
(*                                                                         *)
(* Time is kept relative to the current reading of the clock: a timestamp  *)
(* t of the program is held as its age,  now - t,  in whole seconds, and   *)
(* time passing adds to every age.  An age beyond the period of the        *)
(* limiter is held as period + 1: the program only ever asks whether a     *)
(* timestamp is older than the period.                                     *)
(***************************************************************************)
EXTENDS Integers, Sequences, FiniteSets, TLC

(***************************************************************************)
(* Bounds of the model.                                                    *)
(***************************************************************************)
\* messages that exist in the mail source
NumMsgs == 2
\* the limiters of the model are built with max_calls in 1..MaxQuota
MaxQuota == 2
\* ... and with period in 1..MaxPeriod
MaxPeriod == 2
\* calls each thread of SpecLimiter makes
MaxCallsPerThread == 2
\* threads of SpecLimiter
NumThreads == 2

Msgs == 1..NumMsgs
Threads == 1..NumThreads

(***************************************************************************)
(* Program constants.                                                      *)
(***************************************************************************)
\* ai.py:195  stop_after_attempt(3)
StopAfterAttempt == 3
\* ai.py:195  wait_exponential(multiplier=1, min=4, max=10)
WaitMultiplier == 1
WaitMin == 4
WaitMax == 10

\* mail.py:102  the label name the selection query falls back to
DefaultLabelName == "AutoSpendTracker/Processed"
\* a label name set through the GMAIL_LABEL_NAME environment variable
CustomLabelName == "Custom/Processed"
LabelNames == {DefaultLabelName, CustomLabelName}

\* what initialize_ai_model and gmail_authenticate raise when the configuration
\* or the credentials are missing (ai.py, lines 76-77 and 108-110)
StartupErrors == {"ConfigurationError", "CredentialError"}

\* ai.py:196  the name the limiter of prompt_vertex is registered under, and a
\* name as rate_limit makes it up for a function decorated without one
LimiterNames == {"gemini-api", "autospendtracker.sheets.append_to_sheet"}

\* app_config.py:17-35  the keys load_config copies from the environment
DEFAULT_CONFIG_KEYS ==
    {"PROJECT_ID", "LOCATION", "SERVICE_ACCOUNT_FILE", "SPREADSHEET_ID", "SHEET_RANGE",
     "LOG_LEVEL", "OUTPUT_FILE", "TOKEN_DIR", "MODEL_NAME", "MODEL_TEMPERATURE"}

Max(a, b) == IF a >= b THEN a ELSE b
Min(a, b) == IF a <= b THEN a ELSE b

RECURSIVE Pow2(_)
Pow2(n) == IF n <= 0 THEN 1 ELSE 2 * Pow2(n - 1)

\* variant: tenacity stops one attempt later
stop_after_later_attempt(attempt_number) == attempt_number > StopAfterAttempt

\* tenacity stop_after_attempt: no attempt follows the one numbered attempt_number
stop_after_attempt(attempt_number) == attempt_number >= StopAfterAttempt

\* variant: @rate_limit stacked on @retry, so that a retried attempt goes to the model
retry_calls_model == "call"

\* ai.py:195-196  @retry is stacked on @rate_limit: what tenacity calls for every
\* attempt is the rate_limit wrapper, so an attempt begins at the limiter
retry_calls == "limit"

\* a backoff that starts at WaitMin and doubles from there
wait_doubling_from_min(attempt_number) ==
    Min(WaitMin * Pow2(attempt_number - 1), WaitMax)

\* tenacity wait_exponential: the wait after the attempt numbered attempt_number
wait_exponential(attempt_number) ==
    Max(Max(0, WaitMin), Min(Pow2(attempt_number - 1) * WaitMultiplier, WaitMax))


(***************************************************************************)
(* Text.  A string is the tuple of its characters.                         *)
(***************************************************************************)
UpperChars ==
    <<"A", "B", "C", "D", "E", "F", "G", "H", "I", "J", "K", "L", "M",
      "N", "O", "P", "Q", "R", "S", "T", "U", "V", "W", "X", "Y", "Z">>
LowerChars ==
    <<"a", "b", "c", "d", "e", "f", "g", "h", "i", "j", "k", "l", "m",
      "n", "o", "p", "q", "r", "s", "t", "u", "v", "w", "x", "y", "z">>
DigitChars == <<"0", "1", "2", "3", "4", "5", "6", "7", "8", "9">>

Range(f) == {f[x] : x \in DOMAIN f}
Digits == Range(DigitChars)
NonZeroDigits == Digits \ {"0"}

IndexIn(seq, c) == CHOOSE k \in 1..Len(seq) : seq[k] = c
DigitVal(c) == IndexIn(DigitChars, c) - 1

\* str.lower() and str.upper(), one character at a time
lower_char(c) == IF c \in Range(UpperChars) THEN LowerChars[IndexIn(UpperChars, c)] ELSE c
upper_char(c) == IF c \in Range(LowerChars) THEN UpperChars[IndexIn(LowerChars, c)] ELSE c
lower(s) == [k \in 1..Len(s) |-> lower_char(s[k])]
upper(s) == [k \in 1..Len(s) |-> upper_char(s[k])]

\* Python's  sub in s
Contains(s, sub) ==
    \E k \in 0..(Len(s) - Len(sub)) : SubSeq(s, k + 1, k + Len(sub)) = sub

IsDigits(s) == \A k \in 1..Len(s) : s[k] \in Digits

RECURSIVE ToInt(_)
ToInt(s) == IF Len(s) = 0 THEN 0
            ELSE 10 * ToInt(SubSeq(s, 1, Len(s) - 1)) + DigitVal(s[Len(s)])

(***************************************************************************)
(* models.py: the Transaction model.  Raw data is a function from field    *)
(* names to strings; a field that is missing is not in its domain.         *)
(***************************************************************************)
FieldNames == {"amount", "currency", "merchant", "category", "date", "time", "account"}

ALLOWED_CATEGORIES ==
    {"Transport", "Food & Dining", "Travel", "Home",
     "Utilities", "People", "Shopping", "Grocery", "Other"}
ALLOWED_ACCOUNTS == {"Wise", "PayPal"}

\* variant: an amount field without its pattern
amount_any(v) == TRUE

\* Field(pattern=r'^\d+\.\d{2}$')
amount_pattern(v) ==
    /\ Len(v) >= 4
    /\ IsDigits(SubSeq(v, 1, Len(v) - 3))
    /\ v[Len(v) - 2] = "."
    /\ v[Len(v) - 1] \in Digits
    /\ v[Len(v)] \in Digits

\* Field(min_length=3, max_length=3)
currency_length(v) == Len(v) >= 3 /\ Len(v) <= 3

\* the directive %d of strptime: 3[0-1]|[1-2]\d|0[1-9]|[1-9]| [1-9]
strptime_d(s) ==
    \/ Len(s) = 2 /\ s[1] = "3" /\ s[2] \in {"0", "1"}
    \/ Len(s) = 2 /\ s[1] \in {"1", "2"} /\ s[2] \in Digits
    \/ Len(s) = 2 /\ s[1] = "0" /\ s[2] \in NonZeroDigits
    \/ Len(s) = 1 /\ s[1] \in NonZeroDigits
    \/ Len(s) = 2 /\ s[1] = " " /\ s[2] \in NonZeroDigits

\* the directive %m of strptime: 1[0-2]|0[1-9]|[1-9]
strptime_m(s) ==
    \/ Len(s) = 2 /\ s[1] = "1" /\ s[2] \in {"0", "1", "2"}
    \/ Len(s) = 2 /\ s[1] = "0" /\ s[2] \in NonZeroDigits
    \/ Len(s) = 1 /\ s[1] \in NonZeroDigits

\* the directive %Y of strptime: \d\d\d\d
strptime_Y(s) == Len(s) = 4 /\ IsDigits(s)

IsLeap(y) == (y % 4 = 0 /\ y % 100 # 0) \/ y % 400 = 0
DaysInMonth(m, y) ==
    IF m = 2 THEN (IF IsLeap(y) THEN 29 ELSE 28)
    ELSE IF m \in {4, 6, 9, 11} THEN 30 ELSE 31

Strip(s) == IF Len(s) > 0 /\ s[1] = " " THEN Tail(s) ELSE s

\* validate_date_format: datetime.strptime(v, '%d-%m-%Y') does not raise
validate_date_format(v) ==
    \E i \in 1..Len(v) : \E j \in (i + 1)..Len(v) :
        /\ v[i] = "-"
        /\ v[j] = "-"
        /\ LET d == SubSeq(v, 1, i - 1)
               m == SubSeq(v, i + 1, j - 1)
               y == SubSeq(v, j + 1, Len(v))
           IN  /\ strptime_d(d)
               /\ strptime_m(m)
               /\ strptime_Y(y)
               /\ ToInt(y) >= 1
               /\ ToInt(Strip(d)) <= DaysInMonth(ToInt(m), ToInt(y))

\* validate_time_format: re.match(r'^(0[1-9]|1[0-2]|[1-9]):[0-5][0-9] [AP]M$', v)
validate_time_format(v) ==
    LET w == IF Len(v) > 0 /\ v[Len(v)] = "\n" THEN SubSeq(v, 1, Len(v) - 1) ELSE v
        n == Len(w)
        h == SubSeq(w, 1, n - 6)
    IN  /\ n >= 7
        /\ \/ Len(h) = 2 /\ h[1] = "0" /\ h[2] \in NonZeroDigits
           \/ Len(h) = 2 /\ h[1] = "1" /\ h[2] \in {"0", "1", "2"}
           \/ Len(h) = 1 /\ h[1] \in NonZeroDigits
        /\ w[n - 5] = ":"
        /\ w[n - 4] \in {"0", "1", "2", "3", "4", "5"}
        /\ w[n - 3] \in Digits
        /\ w[n - 2] = " "
        /\ w[n - 1] \in {"A", "P"}
        /\ w[n] = "M"

\* uppercase_currency
uppercase_currency(v) == upper(v)

\* Transaction(**data) raises no ValidationError: every field is present and well-formed
validates(data) ==
    /\ FieldNames \subseteq DOMAIN data
    /\ amount_pattern(data["amount"])
    /\ currency_length(data["currency"])
    /\ data["category"] \in ALLOWED_CATEGORIES
    /\ validate_date_format(data["date"])
    /\ validate_time_format(data["time"])
    /\ data["account"] \in ALLOWED_ACCOUNTS

\* Transaction.from_dict, for data that validates
from_dict(data) ==
    [amount   |-> data["amount"],
     currency |-> uppercase_currency(data["currency"]),
     merchant |-> data["merchant"],
     category |-> data["category"],
     date     |-> data["date"],
     time     |-> data["time"],
     account  |-> data["account"]]

\* variant: the values in the order in which the model declares its fields
to_sheet_row_as_declared(t) ==
    <<t.amount, t.currency, t.merchant, t.category, t.date, t.time, t.account>>

\* Transaction.to_sheet_row
to_sheet_row(t) ==
    <<t.date, t.time, t.merchant, t.amount, t.currency, t.category, t.account>>


(***************************************************************************)
(* ai.py: the response normalizer.                                         *)
(***************************************************************************)
\* CATEGORY_HINTS, in the order of the dictionary
CATEGORY_HINTS ==
    << <<(<<"O", "p", "e", "n", "R", "o", "u", "t", "e", "r">>), "Utilities">>,
       <<(<<"N", "a", "m", "e", "c", "h", "e", "a", "p">>), "Utilities">>,
       <<(<<"O", "l", "d", " ", "P", "e", "t", "e", "r">>), "Food & Dining">>,
       <<(<<"B", "a", "l", "a", "m">>), "Food & Dining">>,
       <<(<<"C", "i", "t", "y", " ", "M", "a", "r", "k", "e", "t">>), "Grocery">>,
       <<(<<"D", "e", "c", "k", "e", "r", "s">>), "Shopping">>,
       <<(<<"M", "o", "o", "d", " ", "U", "p">>), "Shopping">>,
       <<(<<"C", "o", "s", "m", "e", "t">>), "Shopping">>,
       <<(<<"C", "a", "s", "a", " ", "D", "e", " ", "L", "o", "s", " ",
            "C", "i", "r", "i", "o", "s">>), "Food & Dining">> >>

\* the hints whose key the merchant contains, case-insensitively
MatchingHints(merchant) ==
    {k \in 1..Len(CATEGORY_HINTS) : Contains(lower(merchant), lower(CATEGORY_HINTS[k][1]))}

SetMin(S) == CHOOSE x \in S : \A y \in S : x <= y

\* variant: the loop over CATEGORY_HINTS goes on after a match, so the last
\* matching key decides
last_hint(hits) == -SetMin({-k : k \in hits})

\* process_transaction, lines 265-268: the loop takes the keys in the order of
\* the dictionary and breaks at the first match
first_hint(hits) == SetMin(hits)

\* process_transaction, lines 263-268: the first matching hint replaces the category
apply_category_hints(raw_data) ==
    LET merchant == IF "merchant" \in DOMAIN raw_data THEN raw_data["merchant"] ELSE <<>>
        hits == MatchingHints(merchant)
    IN  IF hits = {} THEN raw_data
        ELSE [f \in (DOMAIN raw_data) \cup {"category"} |->
                 IF f = "category" THEN CATEGORY_HINTS[first_hint(hits)][2] ELSE raw_data[f]]

\* The objects a model response may carry.  A response is a tuple of
\* characters in which a whole JSON member list stands as one symbol.
GoodObject ==
    [amount   |-> <<"4", "5", ".", "6", "7">>,
     currency |-> <<"e", "u", "r">>,
     merchant |-> <<"C", "o", "f", "f", "e", "e", " ", "S", "h", "o", "p">>,
     category |-> "Food & Dining",
     date     |-> <<"0", "1", "-", "0", "5", "-", "2", "0", "2", "3">>,
     time     |-> <<"1", "2", ":", "3", "4", " ", "P", "M">>,
     account  |-> "Wise"]
HintedObject ==
    [GoodObject EXCEPT
        !.merchant = <<"C", "i", "t", "y", " ", "M", "a", "r", "k", "e", "t", " ",
                       "B", "r", "a", "n", "c", "h", " ", "3">>,
        !.category = "Other"]
ShortAmountObject == [GoodObject EXCEPT !.amount = <<"4", "5", ".", "6">>]

Members == {"members:good", "members:hinted", "members:short"}
JsonObject(b) ==
    CASE b = "members:good"   -> GoodObject
      [] b = "members:hinted" -> HintedObject
      [] b = "members:short"  -> ShortAmountObject

\* the backtick character
BT == "backtick"

Whitespace == {" ", "\n", "\t", "\r"}

RECURSIVE LStrip(_, _)
LStrip(s, chars) ==
    IF Len(s) > 0 /\ s[1] \in chars THEN LStrip(Tail(s), chars) ELSE s
RECURSIVE RStrip(_, _)
RStrip(s, chars) ==
    IF Len(s) > 0 /\ s[Len(s)] \in chars THEN RStrip(SubSeq(s, 1, Len(s) - 1), chars) ELSE s
StripChars(s, chars) == RStrip(LStrip(s, chars), chars)

StartsWith(s, prefix) == Len(s) >= Len(prefix) /\ SubSeq(s, 1, Len(prefix)) = prefix
Drop(s, n) == SubSeq(s, n + 1, Len(s))

\* re.sub(r'[3 backticks](?:json)?\s*', '', response)
RECURSIVE remove_code_fences(_)
remove_code_fences(s) ==
    IF Len(s) = 0 THEN <<>>
    ELSE IF StartsWith(s, <<BT, BT, BT>>)
         THEN LET r1 == Drop(s, 3)
                  r2 == IF StartsWith(r1, <<"j", "s", "o", "n">>) THEN Drop(r1, 4) ELSE r1
              IN  remove_code_fences(LStrip(r2, Whitespace))
         ELSE <<s[1]>> \o remove_code_fences(Tail(s))

\* str.find of one character: a 0-based index, or -1
find(s, c) == IF c \in Range(s) THEN SetMin({k \in 1..Len(s) : s[k] = c}) - 1 ELSE -1

\* variant: the closing brace is looked for from the left
rfind_from_left(s, c) == find(s, c)

\* str.rfind of one character: a 0-based index, or -1
rfind(s, c) == IF c \in Range(s) THEN -SetMin({-k : k \in {j \in 1..Len(s) : s[j] = c}}) - 1 ELSE -1

\* the slice s[start:end] for 0 <= start and 0 <= end
Slice(s, start, end) == SubSeq(s, start + 1, Min(end, Len(s)))

\* clean_json_response
clean_json_response(response) ==
    LET cleaned == StripChars(StripChars(remove_code_fences(response), {BT}), Whitespace)
        start == find(cleaned, "{")
        end == rfind(cleaned, "}") + 1
    IN  IF start # -1 /\ end # -1 THEN Slice(cleaned, start, end) ELSE cleaned

\* json.loads raises no JSONDecodeError: the text is one object
is_json(text) ==
    LET inner == StripChars(text, Whitespace)
        body == StripChars(SubSeq(inner, 2, Len(inner) - 1), Whitespace)
    IN  /\ Len(inner) >= 3
        /\ inner[1] = "{"
        /\ inner[Len(inner)] = "}"
        /\ Len(body) = 1
        /\ body[1] \in Members

\* json.loads, for a text that is one object
json_loads(text) ==
    LET inner == StripChars(text, Whitespace)
    IN  JsonObject(StripChars(SubSeq(inner, 2, Len(inner) - 1), Whitespace)[1])

\* None, for a text and for a row: Python tests both with  if not x
None == <<>>

\* process_transaction, lines 263-274 and 281-288: the hints are applied, the
\* Transaction is built and made into a row; a ValidationError gives None
validated_row(raw) ==
    LET data == apply_category_hints(raw)
    IN  IF ~validates(data) THEN None ELSE to_sheet_row(from_dict(data))

\* process_transaction, lines 259-288: the row of a model response, or None
normalize_response(model_response) ==
    LET text == clean_json_response(model_response)
    IN  IF ~is_json(text) THEN None
        ELSE validated_row(json_loads(text))

\* The texts the model returns in this model.
PlainText(b) == <<"{", b, "}">>
FencedText(b) ==
    <<BT, BT, BT, "j", "s", "o", "n", "\n", "{", b, "}", "\n", BT, BT, BT, "\n", "o", "k">>
NotJsonText == <<"n", "o", " ", "j", "s", "o", "n">>
TruncatedText == <<"{", "members:good">>
EmptyText == <<>>
ModelTexts ==
    {PlainText("members:good"), FencedText("members:hinted"), PlainText("members:short"),
     NotJsonText, TruncatedText, EmptyText}


(***************************************************************************)
(* State.                                                                  *)
(***************************************************************************)
VARIABLES
    \* the environment
    mailbox,           \* the messages that match the provider filter inside the lookback window
    marked,            \* the messages that carry the label build_services created
    gmail_label_name,  \* settings.gmail_label_name: the environment's GMAIL_LABEL_NAME
    \* the limiter "gemini-api" (AdaptiveRateLimiter)
    max_calls,
    period,
    calls,             \* the deque of timestamps, each held as its age
    \* one pipeline process
    pc,
    label_id,          \* ServiceBundle.label_id
    messages,          \* the candidates of the run
    idx,               \* the position of the loop in messages
    sheet_data,        \* the batch: a sequence of [msg, row]
    transaction_info,  \* whether the parsed record has info
    attempt_number,    \* tenacity's attempt number in prompt_vertex
    model_response,    \* what prompt_vertex returned
    exception,         \* the exception that left process_emails, if any
    \* history
    outcome,           \* per message: where its processing ended
    labelLog,          \* the ids add_label_to_message was called with, in order
    warned,            \* the ids a labelling warning was logged for
    markedAtStart,     \* the messages marked when the run started
    attemptLog,        \* the attempts of the current prompt_vertex call: "raised" or "returned"
    waitLog,           \* the waits tenacity slept between the attempts of that call, in seconds
    last_text,         \* response.text of the latest model call, until the loop moves on
    recorded,          \* timestamps appended to the window (in Spec: by the current prompt_vertex call)
    started,           \* model calls started in the current prompt_vertex call
    \* the threads of SpecLimiter
    lock,              \* the holder of AdaptiveRateLimiter.lock, or 0
    tpc,               \* per thread: where it is in the wrapper
    sleep_left,        \* per thread: the seconds its time.sleep has still to last
    ncalls,            \* per thread: wrapper calls completed
    admitted,          \* the starts of the wrapped function less than a period ago, each held as its age
    \* run_pipeline and main, after process_emails
    search_failed,     \* history: search_messages caught an error in this run
    item_type,         \* the type of the elements of the batch process_emails returned
    artifact,          \* the rows in the local JSON file
    saveLog,           \* the arguments of the calls of save_transaction_data in this run
    appendLog,         \* the attempts of append_to_sheet in this run: [values, error]
    run_result,        \* what run_pipeline returned
    exit_code,         \* what main returned, or -1
    notification,      \* the notification main sent: "none", "success" or "failure"
    \* the record validation on its own
    cleaned_response,  \* what clean_json_response made of the model's text
    raw_data,          \* the dictionary json.loads produced
    returned_row,      \* what process_transaction made of it
    key_order,         \* the keys of the dictionary raw_data in the order of their insertion
    \* get_email_body on its own
    payload,           \* message['payload'], the root of the tree of parts
    parts,             \* the list get_email_body pops parts from
    email_body,        \* what get_email_body returned
    \* the registry of limiters and the threads that use it
    rate_limiter_lock, \* the holder of _rate_limiter_lock, or 0
    rate_limiters,     \* the dictionary _rate_limiters: its items in the order of insertion
    limiter_locks,     \* per limiter name: the holder of the lock of the limiter created under it, or 0
    frames,            \* per thread: the call of the registry it is in, and where
    constructed,       \* history: the limiters constructed, each with the name it was made for
    handed             \* history: what the calls of get_rate_limiter returned

envVars == <<mailbox, marked, gmail_label_name>>
limiterVars == <<max_calls, period, calls>>
procVars == <<pc, label_id, messages, idx, sheet_data, transaction_info,
              attempt_number, model_response, exception>>
histVars == <<outcome, labelLog, warned, markedAtStart, attemptLog, waitLog, last_text,
              recorded, started>>
threadVars == <<lock, tpc, sleep_left, ncalls, admitted>>
runVars == <<search_failed, item_type, artifact, saveLog, appendLog, run_result, exit_code,
            notification>>
fnVars == <<cleaned_response, raw_data, returned_row, key_order>>
mailVars == <<payload, parts, email_body>>
regVars == <<rate_limiter_lock, rate_limiters, limiter_locks, frames, constructed, handed>>
\* what the loop of process_emails leaves alone
offVars == <<threadVars, runVars, fnVars, mailVars, regVars>>
vars == <<envVars, limiterVars, procVars, histVars, threadVars, runVars,
          fnVars, mailVars, regVars>>

(***************************************************************************)
(* rate_limiter.py: AdaptiveRateLimiter.                                   *)
(***************************************************************************)
\* time.time() has advanced by d seconds: every timestamp is d seconds older
Elapse(c, d, p) == [k \in 1..Len(c) |-> Min(c[k] + d, p + 1)]

\* while self.calls and self.calls[0] < now - self.period: self.calls.popleft()
RECURSIVE purge(_, _)
purge(c, p) ==
    IF Len(c) > 0 /\ c[1] > p THEN purge(Tail(c), p) ELSE c

\* variant: the wait ends one second before the oldest timestamp leaves the window
sleep_time_short(c, p) == p - c[1] - 1

\* sleep_time = self.period - (now - self.calls[0])
sleep_time(c, p) == p - c[1]

\* _wait_if_needed sleeps: the purged window is full and sleep_time > 0
must_sleep(c, n, p) ==
    LET w == purge(c, p)
    IN  Len(w) >= n /\ sleep_time(w, p) > 0

\* self.calls.append(now)
record_call(c) == Append(c, 0)

\* the window _wait_if_needed leaves when it does not sleep
window_no_sleep(c, p) == record_call(purge(c, p))

\* the window _wait_if_needed leaves when it slept for slept seconds
window_after_sleep(c, slept, p) == record_call(purge(Elapse(purge(c, p), slept, p), p))

\* time.sleep(sleep_time) lasts sleep_time seconds or longer; past period + 1
\* seconds every timestamp of the window is older than the period
SleepLengths(c, p) == sleep_time(purge(c, p), p)..(p + 1)

\* some timestamp of the window is not yet older than the period
Live(c, p) == \E k \in 1..Len(c) : c[k] <= p

(***************************************************************************)
(* The pipeline: main.py process_emails, with mail.py and ai.py.           *)
(***************************************************************************)
NoLabelId == "None"
TheLabelId == "Label_1"

RECURSIVE SeqOf(_)
SeqOf(S) == IF S = {} THEN <<>> ELSE <<SetMin(S)>> \o SeqOf(S \ {SetMin(S)})

\* mail.py:102  CONFIG.get("GMAIL_LABEL_NAME", "AutoSpendTracker/Processed"):
\* CONFIG holds the keys of DEFAULT_CONFIG only
query_label_name ==
    IF "GMAIL_LABEL_NAME" \in DEFAULT_CONFIG_KEYS THEN gmail_label_name ELSE DefaultLabelName

\* the message carries the label of that name
HasLabel(m, name) == m \in marked /\ gmail_label_name = name

\* what the query of search_messages matches
Candidates == {m \in mailbox : ~HasLabel(m, query_label_name)}

TypeOK ==
    /\ mailbox \subseteq Msgs
    /\ marked \subseteq Msgs
    /\ gmail_label_name \in LabelNames
    /\ max_calls \in 1..MaxQuota
    /\ period \in 1..MaxPeriod
    /\ calls \in Seq(Nat)
    /\ pc \in {"idle", "search", "parse", "limit", "call", "respond", "label",
               "returned", "raised", "save", "upload", "exited",
               "get_body", "walk", "body_returned"}
    /\ label_id \in {NoLabelId, TheLabelId}
    /\ messages \in Seq(Msgs)
    /\ idx \in 0..NumMsgs
    /\ transaction_info \in BOOLEAN
    /\ attempt_number \in 0..StopAfterAttempt
    /\ exception \in {"none", "RetryError", "AttributeError", "IOError", "SheetsError"}
                     \cup StartupErrors
    /\ outcome \in [Msgs -> {"NONE", "SELECTED", "SKIPPED", "FAILED", "NORMALIZED", "MARKED_DONE"}]
    /\ warned \subseteq Msgs
    /\ lock \in {0} \cup Threads

InitThreads ==
    /\ lock = 0
    /\ tpc = [t \in Threads |-> "idle"]
    /\ sleep_left = [t \in Threads |-> 0]
    /\ ncalls = [t \in Threads |-> 0]
    /\ admitted = <<>>

\* get_rate_limiter("gemini-api", max_calls, period): the quota of the pipeline, scaled
InitProcessData ==
    /\ mailbox = {}
    /\ marked = {}
    /\ gmail_label_name \in LabelNames
    /\ label_id = NoLabelId
    /\ messages = <<>>
    /\ idx = 0
    /\ sheet_data = <<>>
    /\ transaction_info = FALSE
    /\ attempt_number = 0
    /\ model_response = None
    /\ exception = "none"
    /\ outcome = [m \in Msgs |-> "NONE"]
    /\ labelLog = <<>>
    /\ warned = {}
    /\ markedAtStart = {}
    /\ attemptLog = <<>>
    /\ waitLog = <<>>
    /\ last_text = <<>>
    /\ recorded = 0
    /\ started = 0

InitLimiter ==
    /\ max_calls \in 1..MaxQuota
    /\ period = MaxPeriod
    /\ calls = <<>>

InitProcess ==
    /\ pc = "idle"
    /\ InitProcessData


\* nothing has been saved or uploaded
InitOutput ==
    /\ artifact = <<>>
    /\ saveLog = <<>>
    /\ appendLog = <<>>
    /\ run_result = None
    /\ exit_code = -1
    /\ notification = "none"

\* process_emails hands over the lists that process_transaction returned (ai.py:274)
InitRun ==
    /\ search_failed = FALSE
    /\ item_type = "list"
    /\ InitOutput

InitFn ==
    /\ cleaned_response = <<>>
    /\ raw_data = <<>>
    /\ returned_row = None
    /\ key_order = <<>>

InitMail ==
    /\ payload = <<>>
    /\ parts = <<>>
    /\ email_body = None

\* no call of the registry is under way in a frame like this
NoArgs == [max_calls |-> 0, period |-> 0]
IdleFrame == [op |-> "idle", at |-> "idle", name |-> "", args |-> NoArgs, todo |-> <<>>]

\* rate_limiter.py:130-131  the registry is empty and its lock is free
InitRegistry ==
    /\ rate_limiter_lock = 0
    /\ rate_limiters = <<>>
    /\ limiter_locks = [n \in LimiterNames |-> 0]
    /\ frames = [t \in Threads |-> IdleFrame]
    /\ constructed = <<>>
    /\ handed = {}

Init == InitLimiter /\ InitProcess /\ InitThreads /\ InitRun /\ InitFn /\ InitMail /\ InitRegistry

\* a second passes; the process reads the clock in _wait_if_needed only, so the
\* time that passes between two steps is taken right before that read
Tick ==
    /\ pc = "limit"
    /\ Live(calls, period)
    /\ calls' = Elapse(calls, 1, period)
    /\ UNCHANGED <<envVars, max_calls, period, procVars, histVars, offVars>>

\* a transaction email arrives; the mail source is read once per run, so
\* arrivals and expiries are taken between runs
Arrive(m) ==
    /\ pc = "idle"
    /\ m \notin mailbox
    /\ m \notin marked
    /\ mailbox' = mailbox \cup {m}
    /\ UNCHANGED <<marked, gmail_label_name, limiterVars, procVars, histVars, offVars>>

\* a message leaves the lookback window
Expire(m) ==
    /\ pc = "idle"
    /\ m \in mailbox
    /\ mailbox' = mailbox \ {m}
    /\ UNCHANGED <<marked, gmail_label_name, limiterVars, procVars, histVars, offVars>>

\* process_emails, lines 96-100: build_services; get_or_create_label may return None
build_services ==
    /\ pc = "idle"
    /\ label_id' \in {NoLabelId, TheLabelId}
    /\ sheet_data' = <<>>
    /\ markedAtStart' = marked
    /\ pc' = "search"
    /\ UNCHANGED <<envVars, limiterVars, messages, idx, transaction_info,
                   attempt_number, model_response, exception, outcome, labelLog, warned,
                   attemptLog, waitLog, last_text, recorded, started, offVars>>

\* variant: process_emails goes on to the search after build_services failed
search_after_startup_error == "search"

\* process_emails, lines 96-97: nothing catches what build_services raises, so
\* the exception leaves process_emails
after_startup_error == "raised"

\* build_services, lines 40-48: initialize_ai_model or gmail_authenticate raises
build_services_raises(e) ==
    /\ pc = "idle"
    /\ exception' = e
    /\ markedAtStart' = marked
    /\ pc' = after_startup_error
    /\ UNCHANGED <<envVars, limiterVars, label_id, messages, idx, sheet_data,
                   transaction_info, attempt_number, model_response, outcome, labelLog,
                   warned, attemptLog, waitLog, last_text, recorded, started, offVars>>

\* the loop of process_emails moves to the next message, or the function returns
NextMessage ==
    IF idx < Len(messages)
    THEN idx' = idx + 1 /\ pc' = "parse"
    ELSE idx' = idx /\ pc' = "returned"

\* process_emails, lines 101-108: search_messages answers
search_messages ==
    /\ pc = "search"
    /\ messages' = SeqOf(Candidates)
    /\ IF messages' = <<>>
       THEN pc' = "returned" /\ idx' = 0
       ELSE pc' = "parse" /\ idx' = 1
    /\ outcome' = [m \in Msgs |-> IF m \in Candidates THEN "SELECTED" ELSE "NONE"]
    /\ UNCHANGED <<envVars, limiterVars, label_id, sheet_data, transaction_info,
                   attempt_number, model_response, exception, labelLog, warned,
                   markedAtStart, attemptLog, waitLog, last_text, recorded, started, offVars>>

\* search_messages, lines 117-119: the search fails and None is returned
search_messages_fails ==
    /\ pc = "search"
    /\ messages' = <<>>
    /\ search_failed' = TRUE
    /\ pc' = "returned"
    /\ UNCHANGED <<envVars, limiterVars, label_id, idx, sheet_data,
                   transaction_info, attempt_number, model_response, exception,
                   histVars, threadVars, fnVars, mailVars, regVars, item_type, artifact, saveLog, appendLog,
                   run_result, exit_code, notification>>

\* variant: process_transaction without its check of the info
info_unchecked(info) == TRUE

\* process_transaction, line 248: transaction_info.get('info') is truthy
has_info(info) == info

\* process_emails, lines 111-115, and process_transaction, lines 248-253: the
\* message is parsed; a record without info returns None at once, a record with
\* info is made into a prompt and prompt_vertex is called
process_transaction_begins(info) ==
    /\ pc = "parse"
    /\ transaction_info' = info
    /\ last_text' = <<>>
    /\ IF has_info(info)
       THEN /\ attempt_number' = 1
            /\ attemptLog' = <<>>
            /\ waitLog' = <<>>
            /\ recorded' = 0
            /\ started' = 0
            /\ pc' = retry_calls
            /\ UNCHANGED <<idx, outcome>>
       ELSE /\ outcome' = [outcome EXCEPT ![messages[idx]] = "SKIPPED"]
            /\ NextMessage
            /\ UNCHANGED <<attempt_number, attemptLog, waitLog, recorded, started>>
    /\ UNCHANGED <<envVars, limiterVars, label_id, messages, sheet_data, model_response,
                   exception, labelLog, warned, markedAtStart, offVars>>

\* lines 111-115 and process_transaction 248-250: the parsed record has no info
parse_email_no_info == process_transaction_begins(FALSE)

\* lines 111-115 and process_transaction 252-253: the record has info, prompt_vertex is called
parse_email_info == process_transaction_begins(TRUE)

\* rate_limit wrapper, line 187: limiter._wait_if_needed() of one attempt
wait_if_needed ==
    /\ pc = "limit"
    /\ IF must_sleep(calls, max_calls, period)
       THEN \E slept \in SleepLengths(calls, period) :
               calls' = window_after_sleep(calls, slept, period)
       ELSE calls' = window_no_sleep(calls, period)
    /\ recorded' = recorded + 1
    /\ pc' = "call"
    /\ UNCHANGED <<envVars, max_calls, period, label_id, messages, idx, sheet_data,
                   transaction_info, attempt_number, model_response, exception, outcome,
                   labelLog, warned, markedAtStart, attemptLog, waitLog, last_text, started,
                   offVars>>

\* prompt_vertex, lines 227-229 under @retry: the model call raises
generate_content_raises ==
    /\ pc = "call"
    /\ started' = started + 1
    /\ attemptLog' = Append(attemptLog, "raised")
    /\ IF stop_after_attempt(attempt_number)
       THEN /\ exception' = "RetryError"
            /\ pc' = "raised"
            /\ outcome' = [outcome EXCEPT ![messages[idx]] = "FAILED"]
            /\ UNCHANGED <<calls, attempt_number, waitLog>>
       ELSE /\ calls' = Elapse(calls, wait_exponential(attempt_number), period)
            /\ waitLog' = Append(waitLog, wait_exponential(attempt_number))
            /\ attempt_number' = attempt_number + 1
            /\ pc' = retry_calls
            /\ UNCHANGED <<exception, outcome>>
    /\ UNCHANGED <<envVars, max_calls, period, label_id, messages, idx, sheet_data,
                   transaction_info, model_response, labelLog, warned, markedAtStart,
                   last_text, recorded, offVars>>

\* variant: an empty text sends prompt_vertex to another attempt
retries_empty_text(text) == IF text = <<>> THEN retry_calls ELSE "respond"

\* prompt_vertex, line 226: the return statement ends the call whatever the
\* text is; tenacity retries on exceptions only
returns_text(text) == "respond"

\* prompt_vertex, lines 215-226: the model call returns text
generate_content_returns(text) ==
    /\ pc = "call"
    /\ started' = started + 1
    /\ attemptLog' = Append(attemptLog, "returned")
    /\ UNCHANGED waitLog
    /\ last_text' = text
    /\ model_response' = IF text # <<>> THEN text ELSE None
    /\ pc' = returns_text(text)
    /\ UNCHANGED <<envVars, limiterVars, label_id, messages, idx, sheet_data,
                   transaction_info, attempt_number, exception, outcome, labelLog, warned,
                   markedAtStart, recorded, offVars>>

\* variant: process_transaction returning the response as it came
unvalidated_result == model_response

\* process_transaction, lines 255-288
process_transaction_result ==
    IF model_response = None THEN None ELSE normalize_response(model_response)

\* variant: the result is not appended
drop_record(batch, m, result) == batch

\* variant: the result is put in front of the batch
prepend_record(batch, m, result) == <<[msg |-> m, row |-> result]>> \o batch

\* process_emails, line 117: sheet_data.append(result)
append_record(batch, m, result) == Append(batch, [msg |-> m, row |-> result])

\* variant: no warning is logged
no_warning(w, m) == w

\* process_emails, lines 120-121: logger.warning for a message that could not be labelled
log_warning(w, m) == w \cup {m}

\* process_transaction returns and process_emails, lines 116-118, takes the result
take_result ==
    /\ pc = "respond"
    /\ LET result == process_transaction_result
           m == messages[idx]
       IN  IF result # None
           THEN /\ sheet_data' = append_record(sheet_data, m, result)
                /\ outcome' = [outcome EXCEPT ![m] = "NORMALIZED"]
                /\ IF label_id # NoLabelId
                   THEN pc' = "label" /\ idx' = idx
                   ELSE NextMessage
           ELSE /\ sheet_data' = sheet_data
                /\ outcome' = [outcome EXCEPT ![m] = "FAILED"]
                /\ NextMessage
    /\ transaction_info' = FALSE
    /\ attempt_number' = 0
    /\ model_response' = None
    /\ attemptLog' = <<>>
    /\ waitLog' = <<>>
    /\ recorded' = 0
    /\ started' = 0
    /\ UNCHANGED <<envVars, limiterVars, label_id, messages, exception,
                   labelLog, warned, markedAtStart, last_text, offVars>>

\* process_emails, lines 119-123: add_label_to_message returns True or False
add_label_to_message(labeled) ==
    /\ pc = "label"
    /\ labelLog' = Append(labelLog, messages[idx])
    /\ IF labeled
       THEN /\ marked' = marked \cup {messages[idx]}
            /\ outcome' = [outcome EXCEPT ![messages[idx]] = "MARKED_DONE"]
            /\ warned' = warned
       ELSE /\ marked' = marked
            /\ outcome' = outcome
            /\ warned' = log_warning(warned, messages[idx])
    /\ last_text' = <<>>
    /\ NextMessage
    /\ UNCHANGED <<mailbox, gmail_label_name, limiterVars, label_id, messages,
                   sheet_data, transaction_info, attempt_number, model_response, exception,
                   markedAtStart, attemptLog, waitLog, recorded, started, offVars>>

\* run_pipeline, line 161: transaction.to_sheet_row() needs a Transaction; a list
\* has no such attribute
has_to_sheet_row(type) == type = "Transaction"

\* variant: only the first record of the batch is made into a row
first_row_only(batch) == <<batch[1].row>>

\* run_pipeline, line 161: sheet_rows, for a batch of Transactions
rows_of(batch) == [k \in 1..Len(batch) |-> batch[k].row]

\* main, lines 239-276: the exit code after run_pipeline returned res
main_returns(res) == IF res = None THEN 0 ELSE 0

\* main, lines 241-246 and 267-273: no notification when run_pipeline returned
\* nothing, else send_success_notification
main_notifies(res) == IF res = None THEN "none" ELSE "success"

\* run_pipeline, lines 151-157: process_emails returned an empty batch
run_pipeline_no_transactions ==
    /\ pc = "returned"
    /\ sheet_data = <<>>
    /\ run_result' = None
    /\ exit_code' = main_returns(None)
    /\ notification' = main_notifies(None)
    /\ pc' = "exited"
    /\ UNCHANGED <<envVars, limiterVars, label_id, messages, idx, sheet_data,
                   transaction_info, attempt_number, model_response, exception, histVars,
                   threadVars, fnVars, mailVars, regVars, search_failed, item_type, artifact, saveLog,
                   appendLog>>

\* run_pipeline, lines 161 and 195-203: the conversion of the batch raises
\* AttributeError, which the except clause turns into None
to_sheet_row_raises ==
    /\ pc = "returned"
    /\ sheet_data # <<>>
    /\ ~has_to_sheet_row(item_type)
    /\ exception' = "AttributeError"
    /\ run_result' = None
    /\ exit_code' = main_returns(None)
    /\ notification' = main_notifies(None)
    /\ pc' = "exited"
    /\ UNCHANGED <<envVars, limiterVars, label_id, messages, idx, sheet_data,
                   transaction_info, attempt_number, model_response, histVars,
                   threadVars, fnVars, mailVars, regVars, search_failed, item_type, artifact, saveLog,
                   appendLog>>

\* run_pipeline, lines 149 and 195-203: process_emails raised, the except clause
\* returns None
run_pipeline_catches ==
    /\ pc = "raised"
    /\ run_result' = None
    /\ exit_code' = main_returns(None)
    /\ notification' = main_notifies(None)
    /\ pc' = "exited"
    /\ UNCHANGED <<envVars, limiterVars, label_id, messages, idx, sheet_data,
                   transaction_info, attempt_number, model_response, exception, histVars,
                   threadVars, fnVars, mailVars, regVars, search_failed, item_type, artifact, saveLog,
                   appendLog>>

\* what values().append().execute() does: it returns, or raises an HttpError
\* with a status that _should_retry_http_error would or would not retry
ExecuteOutcomes == {"none", "HttpError503", "HttpError400"}

\* _should_retry_http_error, lines 35-48: an HttpError of status >= 500 or 429
should_retry_http_error(e) == e = "HttpError503"

\* variant: append_to_sheet lets the error of the API through as it is
keeps_error(e) == e

\* append_to_sheet, lines 99-101: every exception is raised again as SheetsError
wraps_error(e) == "SheetsError"

\* run_pipeline, line 161: the items of the batch have to_sheet_row; the rows
\* are built and save_transaction_data is next (save_to_file defaults to True)
to_sheet_rows ==
    /\ pc = "returned"
    /\ sheet_data # <<>>
    /\ has_to_sheet_row(item_type)
    /\ pc' = "save"
    /\ UNCHANGED <<envVars, limiterVars, label_id, messages, idx, sheet_data,
                   transaction_info, attempt_number, model_response, exception, histVars,
                   offVars>>

\* variant: run_pipeline goes on to the append after the save raised
upload_after_save_error == "upload"

\* run_pipeline, lines 168 and 195-203: what save_transaction_data raises
\* leaves the try block before line 174, and the except clause returns
after_save_error == "exited"

\* run_pipeline, lines 164-171 and 195-203, and save_transaction_data, lines
\* 67-85: the file is opened with mode 'w' and the rows are dumped; an error is
\* raised again, run_pipeline's except clause returns None
save_transaction_data(ok) ==
    /\ pc = "save"
    /\ saveLog' = Append(saveLog, [values |-> rows_of(sheet_data),
                                   error |-> IF ok THEN "none" ELSE "IOError"])
    /\ IF ok
       THEN /\ artifact' = rows_of(sheet_data)
            /\ attempt_number' = 1
            /\ pc' = "upload"
            /\ UNCHANGED <<exception, run_result, exit_code, notification>>
       ELSE /\ artifact' \in {artifact, <<>>}
            /\ exception' = "IOError"
            /\ run_result' = None
            /\ exit_code' = main_returns(None)
            /\ notification' = main_notifies(None)
            /\ pc' = after_save_error
            /\ UNCHANGED attempt_number
    /\ UNCHANGED <<envVars, limiterVars, label_id, messages, idx, sheet_data,
                   transaction_info, model_response, histVars, threadVars, fnVars, mailVars, regVars,
                   search_failed, item_type, appendLog>>

\* run_pipeline, lines 174-203, append_to_sheet, lines 65-101, and
\* retry_api_call, lines 51-73: one attempt of the append; what the function
\* raises is tried again only if _should_retry_http_error accepts it and fewer
\* than three attempts were made, else it reaches run_pipeline's except clause
append_to_sheet(e) ==
    /\ pc = "upload"
    /\ appendLog' = Append(appendLog, [values |-> rows_of(sheet_data), error |-> e])
    /\ IF e = "none"
       THEN /\ run_result' = rows_of(sheet_data)
            /\ exit_code' = main_returns(rows_of(sheet_data))
            /\ notification' = main_notifies(rows_of(sheet_data))
            /\ pc' = "exited"
            /\ UNCHANGED <<attempt_number, exception>>
       ELSE IF should_retry_http_error(wraps_error(e)) /\ attempt_number < StopAfterAttempt
       THEN /\ attempt_number' = attempt_number + 1
            /\ UNCHANGED <<pc, exception, run_result, exit_code, notification>>
       ELSE /\ exception' = wraps_error(e)
            /\ run_result' = None
            /\ exit_code' = main_returns(None)
            /\ notification' = main_notifies(None)
            /\ pc' = "exited"
            /\ UNCHANGED attempt_number
    /\ UNCHANGED <<envVars, limiterVars, label_id, messages, idx, sheet_data,
                   transaction_info, model_response, histVars, threadVars, fnVars, mailVars, regVars,
                   search_failed, item_type, artifact, saveLog>>

\* the run is over: main returned and the process exits; its memory (the batch,
\* the window of the limiter) is gone, the local file stays
finish ==
    /\ pc = "exited"
    /\ pc' = "idle"
    /\ calls' = <<>>
    /\ label_id' = NoLabelId
    /\ messages' = <<>>
    /\ idx' = 0
    /\ sheet_data' = <<>>
    /\ transaction_info' = FALSE
    /\ attempt_number' = 0
    /\ model_response' = None
    /\ exception' = "none"
    /\ outcome' = [m \in Msgs |-> "NONE"]
    /\ labelLog' = <<>>
    /\ warned' = {}
    /\ markedAtStart' = {}
    /\ attemptLog' = <<>>
    /\ waitLog' = <<>>
    /\ last_text' = <<>>
    /\ recorded' = 0
    /\ started' = 0
    /\ search_failed' = FALSE
    /\ saveLog' = <<>>
    /\ appendLog' = <<>>
    /\ run_result' = None
    /\ exit_code' = -1
    /\ notification' = "none"
    /\ UNCHANGED <<envVars, max_calls, period, threadVars, fnVars, mailVars, regVars, item_type, artifact>>

\* process_emails and what run_pipeline and main do with its outcome
NextProcessEmails ==
    \/ Tick
    \/ \E m \in Msgs : Arrive(m)
    \/ \E m \in Msgs : Expire(m)
    \/ build_services
    \/ \E e \in StartupErrors : build_services_raises(e)
    \/ search_messages
    \/ search_messages_fails
    \/ parse_email_no_info
    \/ parse_email_info
    \/ wait_if_needed
    \/ generate_content_raises
    \/ \E text \in ModelTexts : generate_content_returns(text)
    \/ take_result
    \/ \E labeled \in BOOLEAN : add_label_to_message(labeled)
    \/ run_pipeline_no_transactions
    \/ run_pipeline_catches
    \/ finish

Next ==
    \/ NextProcessEmails
    \/ to_sheet_row_raises

Spec == Init /\ [][Next]_vars

\* run_pipeline as tests/test_main.py, lines 122-154, runs it: the items that
\* process_emails hands over are Transaction objects; the limiter is the one of
\* the decorator of prompt_vertex and GMAIL_LABEL_NAME is left at its default
InitRunPipeline ==
    /\ max_calls = MaxQuota
    /\ period = MaxPeriod
    /\ calls = <<>>
    /\ InitProcess /\ InitThreads /\ InitFn /\ InitMail /\ InitRegistry
    /\ gmail_label_name = DefaultLabelName
    /\ search_failed = FALSE
    /\ item_type = "Transaction"
    /\ InitOutput

NextRunPipeline ==
    \/ NextProcessEmails
    \/ to_sheet_rows
    \/ \E ok \in BOOLEAN : save_transaction_data(ok)
    \/ \E e \in ExecuteOutcomes : append_to_sheet(e)

SpecRunPipeline == InitRunPipeline /\ [][NextRunPipeline]_vars

(***************************************************************************)
(* Properties of the pipeline, checked under Spec.                         *)
(***************************************************************************)
\* the batch holds a record of message m
HasRecord(m) == \E j \in 1..Len(sheet_data) : sheet_data[j].msg = m

\* a row of seven fields as Transaction.to_sheet_row lays them out, with a
\* well-formed amount, an allowed category and an allowed account
IsValidatedRow(row) ==
    /\ Len(row) = 7
    /\ row[6] \in ALLOWED_CATEGORIES
    /\ row[7] \in ALLOWED_ACCOUNTS
    /\ amount_pattern(row[4])

\* the model texts that are no JSON object or break the schema
InvalidTexts == {NotJsonText, TruncatedText, PlainText("members:short")}

\* C1: add_label_to_message is called for a message only when the batch already
\* holds a validated record that process_transaction returned for that message in
\* this run; a message that ended SKIPPED (no info) or FAILED (AI failure, JSON
\* failure, validation failure) is never labelled.
C1_LabelOnlyAfterValidatedRecord ==
    /\ \A k \in 1..Len(labelLog) :
          \E j \in 1..Len(sheet_data) :
             sheet_data[j].msg = labelLog[k] /\ IsValidatedRow(sheet_data[j].row)
    /\ pc = "label" =>
          \E j \in 1..Len(sheet_data) :
             sheet_data[j].msg = messages[idx] /\ IsValidatedRow(sheet_data[j].row)
    /\ \A m \in Msgs : outcome[m] \in {"SKIPPED", "FAILED"} => m \notin Range(labelLog)

\* a run that labelled one message and failed on another has returned
C1_Witness ==
    /\ pc = "returned"
    /\ Len(labelLog) = 1
    /\ \E m \in Msgs : outcome[m] = "FAILED"

\* C2 (as stated): no candidate of a run carried the mark when the run started.
C2_Original ==
    \A k \in 1..Len(messages) : messages[k] \notin markedAtStart

\* C3 (as stated): a message whose AI call failed on every attempt ends FAILED
\* and the loop goes on: no exception leaves process_emails, so the records of
\* the earlier messages are returned.
C3_Original ==
    \A m \in Msgs : outcome[m] = "FAILED" => pc # "raised"

\* C4: when the response of the model is no JSON object, or an object that breaks
\* the schema (an amount "45.6"), taking the result appends no record, makes no
\* label call, leaves the marks alone, ends the message FAILED and moves the loop
\* to the next message or to the return of the batch.
C4_InvalidResponseIsSkipped ==
    [][(pc = "respond" /\ model_response \in InvalidTexts) =>
          /\ sheet_data' = sheet_data
          /\ labelLog' = labelLog
          /\ marked' = marked
          /\ outcome'[messages[idx]] = "FAILED"
          /\ exception' = "none"
          /\ pc' = IF idx < Len(messages) THEN "parse" ELSE "returned"]_vars

\* a run returned the record of its first message after the amount "45.6" of its second
C4_Witness ==
    /\ pc = "returned"
    /\ last_text = PlainText("members:short")
    /\ Len(messages) = 2
    /\ outcome[messages[2]] = "FAILED"
    /\ Len(sheet_data) = 1
    /\ sheet_data[1].msg = messages[1]

\* C6: prompt_vertex makes at most three attempts, every attempt but the last
\* raised, a returned attempt ends the call with the text of that attempt, and
\* the call raises only after three attempts that raised.
C6_AtMostThreeAttempts ==
    /\ Len(attemptLog) <= 3
    /\ \A k \in 1..(Len(attemptLog) - 1) : attemptLog[k] = "raised"
    /\ pc \in {"limit", "call"} =>
          /\ attempt_number = Len(attemptLog) + 1
          /\ \A k \in 1..Len(attemptLog) : attemptLog[k] = "raised"
    /\ pc = "respond" =>
          /\ attemptLog[Len(attemptLog)] = "returned"
          /\ model_response = last_text
    /\ (pc = "raised" /\ exception \notin StartupErrors) =>
          attemptLog = <<"raised", "raised", "raised">>

\* fail, fail, success: the third attempt's text is returned
C6_Witness ==
    /\ pc = "respond"
    /\ attemptLog = <<"raised", "raised", "returned">>
    /\ model_response = PlainText("members:good")

\* C7 (as stated): the exception that leaves prompt_vertex after three failed
\* attempts is AIModelError.
C7_Original ==
    (pc = "raised" /\ attemptLog # <<>>) => exception = "AIModelError"

\* C8: every model call of prompt_vertex, a retry included, comes right after a
\* pass through _wait_if_needed that appended its timestamp: the timestamps
\* appended are one more than the model calls started while a call is about to
\* start, and as many at every other point.
C8_EveryAttemptIsRateLimited ==
    /\ started = Len(attemptLog)
    /\ pc = "call" =>
          /\ recorded = started + 1
          /\ calls # <<>>
          /\ calls[Len(calls)] = 0
    /\ pc # "call" => recorded = started

\* the third attempt has passed the limiter and is about to call the model
C8_Witness ==
    /\ pc = "call"
    /\ attempt_number = 3
    /\ recorded = 3
    /\ started = 2

\* C9 (as stated): the label call for a message precedes the append of its
\* record, so every record of the batch belongs to a message the label call was
\* already made for.
C9_Original ==
    label_id # NoLabelId =>
       \A j \in 1..Len(sheet_data) : sheet_data[j].msg \in Range(labelLog)

\* C9 (amended): the append of a record precedes the label call for its message:
\* when add_label_to_message is called the batch already holds the record, and
\* the call leaves the batch as it is.
C9_RecordPrecedesLabel ==
    [][Len(labelLog') > Len(labelLog) =>
          /\ HasRecord(messages[idx])
          /\ sheet_data[Len(sheet_data)].msg = messages[idx]
          /\ sheet_data' = sheet_data]_vars

\* a message was labelled, and its record is in the batch
C9_Witness ==
    /\ labelLog # <<>>
    /\ labelLog[1] \in marked
    /\ HasRecord(labelLog[1])

\* C10: when the label call fails, the record stays in the batch, a warning is
\* logged for the message, no exception is raised and the loop moves to the next
\* message or to the return of the batch.
C10_LabelFailureKeepsRecord ==
    [][(pc = "label" /\ outcome'[messages[idx]] # "MARKED_DONE") =>
          /\ sheet_data' = sheet_data
          /\ HasRecord(messages[idx])
          /\ messages[idx] \in warned'
          /\ exception' = "none"
          /\ pc' = IF idx < Len(messages) THEN "parse" ELSE "returned"]_vars

\* the label call of the first message failed and the loop is at the second message
C10_Witness ==
    /\ pc = "parse"
    /\ idx = 2
    /\ messages[1] \in warned
    /\ messages[1] \notin marked
    /\ HasRecord(messages[1])


\* the messages labelled in this run
MarkedInRun == {m \in Msgs : outcome[m] = "MARKED_DONE"}

\* the record of message m in the batch
RecordOf(m) == sheet_data[CHOOSE j \in 1..Len(sheet_data) : sheet_data[j].msg = m].row

\* the rows this run wrote to the local file or uploaded to the spreadsheet
DeliveredRows ==
    UNION ({Range(saveLog[k].values) : k \in {j \in 1..Len(saveLog) : saveLog[j].error = "none"}}
           \cup {Range(appendLog[k].values) :
                    k \in {j \in 1..Len(appendLog) : appendLog[j].error = "none"}})

\* the messages labelled in this run whose record is neither in the file nor uploaded
Undelivered == {m \in MarkedInRun : ~HasRecord(m) \/ RecordOf(m) \notin DeliveredRows}

\* the loop of process_emails is running or has just returned
InLoop == pc \in {"parse", "limit", "call", "respond", "label", "returned"}

\* C11 (as stated): at whatever point of a run the process stops, at most one
\* message labelled in the run has its record neither in the local file nor in
\* the spreadsheet.
C11_Original ==
    Cardinality(Undelivered) <= 1

\* C11 (amended): until the loop has ended, the record of every message labelled
\* in the run is held in the in-memory batch and nowhere else, so a crash there
\* loses the records of all the messages labelled so far in the run.
C11_MarkedRecordsOnlyInMemory ==
    InLoop =>
       /\ \A m \in MarkedInRun : HasRecord(m)
       /\ Undelivered = MarkedInRun

\* the loop has labelled two messages and nothing of the run is downstream
C11_Witness ==
    /\ InLoop
    /\ Cardinality(MarkedInRun) >= 2
    /\ Cardinality(Undelivered) >= 2

\* C12 (as stated): when search_messages failed, process_emails does not return
\* as it does for an empty search: an error reaches run_pipeline and main ends
\* the run as failed.
C12_Original ==
    search_failed =>
       /\ pc = "returned" => exception # "none"
       /\ pc = "exited" => exit_code = 1

\* C13: the step that takes a parsed record without info starts no AI call: the
\* window of the limiter, the attempts and the model calls of prompt_vertex, the
\* batch, the label calls and the marks are as before, the message ends SKIPPED
\* and the loop moves on; and no attempt of prompt_vertex is ever under way for
\* a record without info.
C13_NoInfoNoAICall ==
    /\ [][(pc = "parse" /\ ~transaction_info') =>
             /\ calls' = calls
             /\ recorded' = recorded
             /\ started' = started
             /\ attemptLog' = attemptLog
             /\ sheet_data' = sheet_data
             /\ labelLog' = labelLog
             /\ marked' = marked
             /\ outcome'[messages[idx]] = "SKIPPED"
             /\ pc' = IF idx < Len(messages) THEN "parse" ELSE "returned"]_vars
    /\ [](pc \in {"limit", "call", "respond"} => transaction_info)

\* a run skipped one message without info and made one model call for the other
C13_Witness ==
    /\ pc = "returned"
    /\ \E m \in Msgs : outcome[m] = "SKIPPED"
    /\ \E m \in Msgs : outcome[m] = "MARKED_DONE"
    /\ Len(calls) = 1

\* C16 (as stated): when process_emails has ended, every candidate selected at
\* run start is in exactly one of the terminal states SKIPPED, MARKED_DONE and
\* FAILED.
C16_Original ==
    pc \in {"returned", "raised"} =>
       \A k \in 1..Len(messages) :
          outcome[messages[k]] \in {"SKIPPED", "MARKED_DONE", "FAILED"}

C19_Original ==
    (/\ pc = "exited"
     /\ Len(messages) >= 1
     /\ Len(sheet_data) = Len(messages)
     /\ \A k \in 1..Len(messages) : sheet_data[k].msg = messages[k]
     /\ \A k \in 1..Len(saveLog) : saveLog[k].error = "none"
     /\ \A k \in 1..Len(appendLog) : appendLog[k].error = "none") =>
       /\ run_result # None
       /\ Len(run_result) = Len(messages)
       /\ \A k \in 1..Len(messages) :
             /\ run_result[k] = sheet_data[k].row
             /\ Len(run_result[k]) = 7
       /\ Len(saveLog) = 1
       /\ saveLog[1].values = run_result
       /\ Len(appendLog) = 1
       /\ appendLog[1].values = run_result

\* C25 (as stated): a run in which no message produced a record is not an
\* error: process_emails returned an empty batch, run_pipeline made no save and
\* no append and returned None, and main returned 0 and sent no notification.
C25_Original ==
    (pc = "exited" /\ sheet_data = <<>> /\ exception \notin StartupErrors) =>
       /\ exception = "none"
       /\ run_result = None
       /\ saveLog = <<>>
       /\ appendLog = <<>>
       /\ exit_code = 0
       /\ notification = "none"

\* C26: when build_services fails with a configuration or credential error the
\* run does not begin: there is no search, no parse, no AI call, no label call,
\* no save and no append, nothing outside the process changes, and
\* run_pipeline returns None.
C26_StartupErrorRunsNothing ==
    /\ [](exception \in StartupErrors =>
             /\ pc \in {"raised", "exited"}
             /\ messages = <<>>
             /\ \A m \in Msgs : outcome[m] = "NONE"
             /\ ~search_failed
             /\ attemptLog = <<>>
             /\ started = 0
             /\ recorded = 0
             /\ labelLog = <<>>
             /\ sheet_data = <<>>
             /\ saveLog = <<>>
             /\ appendLog = <<>>
             /\ (pc = "exited" => run_result = None))
    /\ [][exception' \in StartupErrors =>
             /\ marked' = marked
             /\ calls' = calls
             /\ artifact' = artifact]_vars

\* a run ended after build_services raised CredentialError, while a message
\* was waiting in the mailbox
C26_Witness ==
    /\ pc = "exited"
    /\ exception = "CredentialError"
    /\ run_result = None
    /\ mailbox \ marked # {}

\* C27 (as stated): main returns 1 and attempts a failure notification whenever
\* the run ended because of an error, and returns 0 only for a successful or
\* an empty run.
C27_Original ==
    pc = "exited" =>
       /\ (exception # "none" \/ search_failed) =>
             exit_code = 1 /\ notification = "failure"
       /\ exit_code = 0 => (exception = "none" /\ ~search_failed)

\* the attempts of the current prompt_vertex call that raised
RaisedAttempts == Cardinality({k \in 1..Len(attemptLog) : attemptLog[k] = "raised"})

\* C28 (amended): tenacity sleeps once after every failed attempt but the
\* last, never before the first attempt, and within the three attempts every
\* such sleep lasts 4 seconds: the exponential terms 1 s and 2 s are both
\* raised to the minimum of 4 s, and the cap of 10 s is not reached.
C28_BackoffIsFourSecondsTwice ==
    /\ Len(waitLog) = Min(RaisedAttempts, StopAfterAttempt - 1)
    /\ started = 0 => waitLog = <<>>
    /\ \A k \in 1..Len(waitLog) : waitLog[k] = 4

\* C28: all three attempts raised, with two sleeps between them
C28_Witness ==
    /\ pc = "raised"
    /\ attemptLog = <<"raised", "raised", "raised">>
    /\ waitLog = <<4, 4>>

\* C28 (as stated): the delay is 4 seconds before the second attempt and
\* doubles to 8 seconds before the third, capped at 10 seconds; none precedes
\* the first attempt or follows the last.
C28_Original ==
    /\ Len(waitLog) = Min(RaisedAttempts, StopAfterAttempt - 1)
    /\ started = 0 => waitLog = <<>>
    /\ \A k \in 1..Len(waitLog) : waitLog[k] = Min(4 * Pow2(k - 1), 10)

\* C29 (as stated): after every run in which process_emails returned its batch
\* and neither the save nor the append failed, the local JSON file holds
\* exactly the rows of that run's batch.
C29_Original ==
    (/\ pc = "exited"
     /\ exception \notin StartupErrors \cup {"RetryError", "IOError", "SheetsError"}) =>
       artifact = rows_of(sheet_data)

\* the candidates whose normalization succeeded, in the order of their selection
NormalizedCandidates ==
    SelectSeq(messages, LAMBDA m : outcome[m] \in {"NORMALIZED", "MARKED_DONE"})

\* the processing of message m has ended
Ended(m) ==
    \/ outcome[m] \in {"SKIPPED", "FAILED", "MARKED_DONE"}
    \/ outcome[m] = "NORMALIZED" /\ (label_id = NoLabelId \/ m \in warned)

C33_Original ==
    marked # {} =>
       /\ query_label_name = gmail_label_name
       /\ Candidates \cap marked = {}

\* C35 (as stated): when a run has ended and no save and no append of it
\* failed, the record of every message labelled in the run is among the rows
\* passed to append_to_sheet in that run.
C35_Original ==
    (/\ pc = "exited"
     /\ \A k \in 1..Len(saveLog) : saveLog[k].error = "none"
     /\ \A k \in 1..Len(appendLog) : appendLog[k].error = "none") =>
       \A m \in MarkedInRun :
          /\ HasRecord(m)
          /\ \E k \in 1..Len(appendLog) : RecordOf(m) \in Range(appendLog[k].values)

\* C36 (as stated): a message that ended SKIPPED or FAILED in a run carries no
\* mark afterwards and, while it is in the lookback window, is matched by the
\* selection query again.
C36_Original ==
    \A m \in Msgs :
       (pc \in {"returned", "raised", "exited"} /\ outcome[m] \in {"SKIPPED", "FAILED"}) =>
          /\ m \notin marked
          /\ m \in mailbox => m \in Candidates

\* C37: a model call that returns empty text ends prompt_vertex with that
\* attempt: no text is handed to process_transaction and no further attempt
\* follows; taking the result then ends the message FAILED, with the batch,
\* the label calls and the marks as before, and moves the loop on.
C37_EmptyTextIsNotRetried ==
    /\ [][(pc = "call" /\ attemptLog' = Append(attemptLog, "returned") /\ last_text' = EmptyText) =>
             /\ pc' = "respond"
             /\ model_response' = None
             /\ attempt_number' = attempt_number
             /\ calls' = calls]_vars
    /\ [][(pc = "respond" /\ last_text = EmptyText) =>
             /\ outcome'[messages[idx]] = "FAILED"
             /\ sheet_data' = sheet_data
             /\ labelLog' = labelLog
             /\ marked' = marked
             /\ started' = 0
             /\ pc' = IF idx < Len(messages) THEN "parse" ELSE "returned"]_vars

\* the only message of a run ended FAILED on an empty text, nothing batched or labelled
C37_Witness ==
    /\ pc = "returned"
    /\ Len(messages) = 1
    /\ last_text = EmptyText
    /\ outcome[messages[1]] = "FAILED"
    /\ sheet_data = <<>>
    /\ labelLog = <<>>

InitAnyLimiter ==
    /\ max_calls \in 1..MaxQuota
    /\ period \in 1..MaxPeriod
    /\ calls = <<>>

InitL == InitAnyLimiter /\ InitProcess /\ InitThreads /\ InitRun /\ InitFn /\ InitMail /\ InitRegistry

\* the starts of the wrapped function d seconds later: those that still lie
\* inside the rolling window of p seconds that ends now
elapse_starts(a, d, p) ==
    SelectSeq([k \in 1..Len(a) |-> a[k] + d], LAMBDA age : age < p)

\* a second passes for every thread
TickL ==
    /\ \/ Live(calls, period)
       \/ admitted # <<>>
       \/ \E t \in Threads : sleep_left[t] > 0
    /\ calls' = Elapse(calls, 1, period)
    /\ admitted' = elapse_starts(admitted, 1, period)
    /\ sleep_left' = [t \in Threads |-> Max(sleep_left[t] - 1, 0)]
    /\ UNCHANGED <<runVars, fnVars, mailVars, regVars, envVars, max_calls, period, procVars, histVars, lock, tpc, ncalls>>

\* variant: a limiter whose lock never makes a caller wait
lock_ignored(l) == TRUE

\* with self.lock: the lock can be taken when no thread holds it
lock_free(l) == l = 0

\* _wait_if_needed, lines 78-103: the thread takes the lock, reads the clock and
\* purges; it records its call and leaves, or begins time.sleep holding the lock
enter_wait_if_needed(t) ==
    /\ tpc[t] = "idle"
    /\ ncalls[t] < MaxCallsPerThread
    /\ lock_free(lock)
    /\ IF must_sleep(calls, max_calls, period)
       THEN /\ calls' = purge(calls, period)
            /\ sleep_left' = [sleep_left EXCEPT ![t] = sleep_time(purge(calls, period), period)]
            /\ lock' = t
            /\ tpc' = [tpc EXCEPT ![t] = "sleeping"]
            /\ UNCHANGED recorded
       ELSE /\ calls' = window_no_sleep(calls, period)
            /\ recorded' = recorded + 1
            /\ tpc' = [tpc EXCEPT ![t] = "admitted"]
            /\ UNCHANGED <<sleep_left, lock>>
    /\ UNCHANGED <<runVars, fnVars, mailVars, regVars, envVars, max_calls, period, procVars, ncalls, admitted,
                   outcome, labelLog, warned, markedAtStart, attemptLog, waitLog, last_text, started>>

\* _wait_if_needed, lines 96-103: time.sleep is over; the thread reads the clock,
\* purges, records its call and releases the lock
leave_sleep(t) ==
    /\ tpc[t] = "sleeping"
    /\ sleep_left[t] = 0
    /\ calls' = record_call(purge(calls, period))
    /\ recorded' = recorded + 1
    /\ lock' = 0
    /\ tpc' = [tpc EXCEPT ![t] = "admitted"]
    /\ UNCHANGED <<runVars, fnVars, mailVars, regVars, envVars, max_calls, period, procVars, sleep_left, ncalls,
                   admitted, outcome, labelLog, warned, markedAtStart, attemptLog, waitLog, last_text, started>>

\* get_current_usage, lines 105-120: under the lock the window is purged and its
\* length reported
get_current_usage ==
    /\ lock_free(lock)
    /\ calls' = purge(calls, period)
    /\ UNCHANGED <<runVars, fnVars, mailVars, regVars, envVars, max_calls, period, procVars, histVars, threadVars>>

\* reset, lines 122-126: under the lock the window is cleared
reset ==
    /\ lock_free(lock)
    /\ calls' = <<>>
    /\ UNCHANGED <<runVars, fnVars, mailVars, regVars, envVars, max_calls, period, procVars, histVars, threadVars>>

\* rate_limit.wrapper, line 188: the wrapped function starts
call_func(t) ==
    /\ tpc[t] = "admitted"
    /\ admitted' = Append(admitted, 0)
    /\ tpc' = [tpc EXCEPT ![t] = "running"]
    /\ UNCHANGED <<runVars, fnVars, mailVars, regVars, envVars, limiterVars, procVars, histVars, lock, sleep_left, ncalls>>

\* rate_limit.wrapper, line 188: the wrapped function returns
func_returns(t) ==
    /\ tpc[t] = "running"
    /\ tpc' = [tpc EXCEPT ![t] = "idle"]
    /\ ncalls' = [ncalls EXCEPT ![t] = ncalls[t] + 1]
    /\ UNCHANGED <<runVars, fnVars, mailVars, regVars, envVars, limiterVars, procVars, histVars, lock, sleep_left, admitted>>

NextL ==
    \/ TickL
    \/ \E t \in Threads : enter_wait_if_needed(t)
    \/ \E t \in Threads : leave_sleep(t)
    \/ \E t \in Threads : call_func(t)
    \/ \E t \in Threads : func_returns(t)

SpecLimiter == InitL /\ [][NextL]_vars

\* the threads also read the usage of the limiter and reset it
NextLimiterAPI ==
    \/ NextL
    \/ get_current_usage
    \/ reset

SpecLimiterAPI == InitL /\ [][NextLimiterAPI]_vars

TypeOKL ==
    /\ max_calls \in 1..MaxQuota
    /\ period \in 1..MaxPeriod
    /\ lock \in {0} \cup Threads
    /\ tpc \in [Threads -> {"idle", "sleeping", "admitted", "running"}]
    /\ sleep_left \in [Threads -> 0..MaxPeriod]
    /\ ncalls \in [Threads -> 0..MaxCallsPerThread]
    /\ \A k \in 1..Len(calls) : calls[k] \in 0..(period + 1)
    /\ \A k \in 1..Len(admitted) : admitted[k] \in 0..(period - 1)

\* C5 (as stated): at no time have more than max_calls wrapped calls started
\* within the rolling window of the last period seconds.
C5_Original ==
    Len(admitted) <= max_calls


\* the scheduler lets time pass, ends every time.sleep and resumes every thread
\* that has left _wait_if_needed
FairSpecLimiter ==
    /\ SpecLimiter
    /\ WF_vars(TickL)
    /\ \A t \in Threads : WF_vars(leave_sleep(t)) /\ WF_vars(call_func(t))

\* C14: a call that finds the window full is never turned away. It leaves
\* _wait_if_needed only by recording its timestamp; if it had to wait, it waited
\* with sleep_left = period - (now - oldest) and leaves no sooner than the moment
\* the oldest timestamp is period seconds old; and it goes on to run the function.
C14_FullWindowDelaysNeverRejects ==
    /\ [][\A t \in Threads :
             /\ (tpc[t] = "idle" /\ tpc'[t] # "idle"
                    /\ Len(purge(calls, period)) >= max_calls) =>
                   \/ /\ tpc'[t] = "sleeping"
                      /\ sleep_left'[t] = period - purge(calls, period)[1]
                      /\ sleep_left'[t] > 0
                   \/ /\ tpc'[t] = "admitted"
                      /\ purge(calls, period)[1] >= period
                      /\ calls' = Append(purge(calls, period), 0)
             /\ (tpc[t] = "sleeping" /\ tpc'[t] # "sleeping") =>
                   /\ tpc'[t] = "admitted"
                   /\ calls # <<>>
                   /\ calls[1] >= period
                   /\ Len(calls') >= 1
                   /\ calls'[Len(calls')] = 0]_vars
    /\ \A t \in Threads : (tpc[t] = "sleeping") ~> (tpc[t] = "running")

\* a thread that found the window full has recorded its timestamp behind the
\* full window once the oldest timestamp was period seconds old
C14_Witness ==
    \E t \in Threads :
       /\ tpc[t] \in {"admitted", "running"}
       /\ lock = 0
       /\ Len(calls) > max_calls
       /\ calls[1] >= period
       /\ calls[Len(calls)] = 0

\* the calls of the wrapped function that have returned
RECURSIVE returned_calls(_)
returned_calls(T) ==
    IF T = {} THEN 0
    ELSE LET t == CHOOSE x \in T : TRUE
         IN  ncalls[t] + returned_calls(T \ {t})

\* the threads that have left _wait_if_needed and whose call has not returned yet
in_flight == {t \in Threads : tpc[t] \in {"admitted", "running"}}

\* C15: the critical sections of _wait_if_needed exclude one another. A thread
\* inside one (it decided to wait and has not appended yet) holds the lock, so at
\* most one thread is inside; until it appends, no other caller changes the
\* window (only time passes); and the timestamps appended are exactly one per
\* call that has left _wait_if_needed, so k once k calls returned and none is
\* on its way.
C15_CriticalSectionExclusive ==
    /\ [](\A t \in Threads : tpc[t] = "sleeping" => lock = t)
    /\ [](lock # 0 => tpc[lock] = "sleeping")
    /\ [][\A t \in Threads :
             (tpc[t] = "sleeping" /\ tpc'[t] = "sleeping") =>
                /\ calls' \in {calls, Elapse(calls, 1, period)}
                /\ recorded' = recorded]_vars
    /\ [][\A t \in Threads :
             (tpc[t] = "sleeping" /\ tpc'[t] # "sleeping") =>
                /\ Len(calls') = Len(purge(calls, period)) + 1
                /\ recorded' = recorded + 1]_vars
    /\ [](recorded = returned_calls(Threads) + Cardinality(in_flight))

\* one thread waits inside _wait_if_needed while another one wants to call, and
\* calls have returned before
C15_Witness ==
    \E t, u \in Threads :
       /\ t # u
       /\ tpc[t] = "sleeping"
       /\ tpc[u] = "idle"
       /\ ncalls[u] < MaxCallsPerThread
       /\ returned_calls(Threads) >= 2
       /\ recorded = returned_calls(Threads)

(***************************************************************************)
(* SpecValidate: process_transaction from the parsed JSON object on.       *)
(* ai.py: process_transaction, lines 261-288, and models.py: Transaction.  *)
(***************************************************************************)
\* the values one field of the model's object may carry: well-formed ones and
\* malformed ones; a field may also be missing
AmountValues ==
    {<<"4", "5", ".", "6", "7">>, <<"4", "5", ".", "6">>}
CategoryValues == {"Food & Dining", "Groceries"}
AccountValues == {"Wise", "PayPal", "Revolut"}
DateValues ==
    {<<"0", "1", "-", "0", "5", "-", "2", "0", "2", "3">>,
     <<"3", "1", "-", "0", "2", "-", "2", "0", "2", "3">>}
TimeValues ==
    {<<"1", "2", ":", "3", "4", " ", "P", "M">>,
     <<"1", "3", ":", "0", "0", " ", "P", "M">>,
     <<"0", ":", "3", "0", " ", "A", "M">>,
     <<"1", "2", ":", "3", "4", " ", "P", "M", "\n">>}
\* a merchant that holds no key of CATEGORY_HINTS, one that holds one key, one
\* that holds two keys in another case, and the empty string
TwoHintsMerchant ==
    <<"b", "a", "l", "a", "m", " ", "C", "I", "T", "Y", " ", "M", "A", "R", "K", "E", "T">>
MerchantValues ==
    {GoodObject.merchant, HintedObject.merchant, TwoHintsMerchant, <<>>}
\* three lowercase letters, three characters that are not all letters, and
\* strings of two and of four letters
CurrencyValues ==
    {GoodObject.currency, <<"e", "u", "1">>, <<"e", "u">>, <<"e", "u", "r", "o">>}

FieldValues(f) ==
    CASE f = "amount"   -> AmountValues
      [] f = "category" -> CategoryValues
      [] f = "account"  -> AccountValues
      [] f = "date"     -> DateValues
      [] f = "time"     -> TimeValues
      [] f = "merchant" -> MerchantValues
      [] f = "currency" -> CurrencyValues

\* the object d with the field f set to v
Put(d, f, v) == [g \in (DOMAIN d) \cup {f} |-> IF g = f THEN v ELSE d[g]]

\* the objects json.loads may return over the fields F: any subset of the
\* fields, each with one of its values
RECURSIVE ObjectsOver(_)
ObjectsOver(F) ==
    IF F = {} THEN {<<>>}
    ELSE LET f == CHOOSE x \in F : TRUE
             rest == ObjectsOver(F \ {f})
         IN  rest \cup {Put(d, f, v) : d \in rest, v \in FieldValues(f)}

RawObjects == ObjectsOver(FieldNames)

InitValidate ==
    /\ max_calls = MaxQuota
    /\ period = MaxPeriod
    /\ calls = <<>>
    /\ pc = "respond"
    /\ InitProcessData
    /\ gmail_label_name = DefaultLabelName
    /\ InitThreads
    /\ InitRun
    /\ cleaned_response = <<>>
    /\ raw_data \in RawObjects
    /\ returned_row = None
    /\ key_order = <<>>
    /\ InitMail /\ InitRegistry

\* process_transaction, lines 263-288: the object is validated and the row, or
\* None, is returned
validate_raw_data ==
    /\ pc = "respond"
    /\ returned_row' = validated_row(raw_data)
    /\ pc' = "returned"
    /\ UNCHANGED <<envVars, limiterVars, label_id, messages, idx, sheet_data,
                   transaction_info, attempt_number, model_response, exception, histVars,
                   threadVars, runVars, cleaned_response, raw_data, key_order, mailVars, regVars>>

NextValidate == validate_raw_data

SpecValidate == InitValidate /\ [][NextValidate]_vars

\* the values of a field that are well-formed as the record requires them
WellFormed(f) ==
    CASE f = "amount"   -> {<<"4", "5", ".", "6", "7">>}
      [] f = "category" -> {"Food & Dining", "Grocery"}
      [] f = "account"  -> {"Wise", "PayPal"}
      [] f = "date"     -> {<<"0", "1", "-", "0", "5", "-", "2", "0", "2", "3">>}
      [] f = "time"     -> {<<"1", "2", ":", "3", "4", " ", "P", "M">>}
      [] f = "merchant" -> MerchantValues
      [] f = "currency" -> {v \in CurrencyValues : Len(v) = 3}

\* C20 (as stated): validation is all-or-nothing. A record is returned exactly
\* when all seven fields are present and each is well-formed (the amount is
\* digits, a dot and two digits, the category one of the nine, the account Wise
\* or PayPal, the date a calendar date, the time a 12-hour value); the record
\* then has seven fields.
C20_Original ==
    pc = "returned" =>
       LET data == apply_category_hints(raw_data)
           accepted == /\ FieldNames \subseteq DOMAIN data
                       /\ \A f \in FieldNames : data[f] \in WellFormed(f)
       IN  /\ returned_row # None <=> accepted
           /\ returned_row # None => Len(returned_row) = 7

\* C21 (as stated): every record that the validation accepts has a non-empty
\* merchant; an object whose merchant is the empty string gives no record.
C21_Original ==
    pc = "returned" =>
       /\ returned_row # None => returned_row[3] # <<>>
       /\ ("merchant" \in DOMAIN raw_data /\ raw_data["merchant"] = <<>>) =>
             returned_row = None

\* the letters A to Z
UpperLetters == Range(UpperChars)

\* C22 (as stated): the currency of every accepted record is exactly three
\* uppercase letters, and an object whose currency is not three letters gives
\* no record.
C22_Original ==
    pc = "returned" =>
       /\ returned_row # None =>
             /\ Len(returned_row[5]) = 3
             /\ \A k \in 1..3 : returned_row[5][k] \in UpperLetters
       /\ ("currency" \in DOMAIN raw_data /\
           ~(/\ Len(raw_data["currency"]) = 3
             /\ \A k \in 1..3 : upper_char(raw_data["currency"][k]) \in UpperLetters)) =>
             returned_row = None

\* the category the hint table holds for the merchants of MerchantValues, by
\* reading the table: "City Market" is its fifth key, "Balam" its fourth
HintedCategory(merchant) ==
    CASE merchant = HintedObject.merchant -> "Grocery"
      [] merchant = TwoHintsMerchant      -> "Food & Dining"
      [] OTHER                            -> "no hint"

\* C23: the category of a returned record is that of the first key of the hint
\* table which the merchant contains, in any case of the letters, whatever the
\* model proposed; with no such key it is the category the model proposed.
C23_FirstHintDecidesCategory ==
    (pc = "returned" /\ returned_row # None) =>
       LET hinted == HintedCategory(raw_data["merchant"])
       IN  returned_row[6] = IF hinted # "no hint" THEN hinted ELSE raw_data["category"]

\* a record was returned for a merchant that holds two keys of the table, with
\* the category of the first one, where the model had proposed none that is allowed
C23_Witness ==
    /\ pc = "returned"
    /\ returned_row # None
    /\ raw_data["merchant"] = TwoHintsMerchant
    /\ "category" \in DOMAIN raw_data
    /\ raw_data["category"] = "Groceries"
    /\ returned_row[6] = "Food & Dining"

(***************************************************************************)
(* SpecClean: process_transaction from the text of the model on.           *)
(* ai.py: clean_json_response, lines 172-192, and process_transaction,     *)
(* lines 255-288.                                                          *)
(***************************************************************************)
\* the parts a response is made of: prose before, an opening code fence with or
\* without the language tag, the body, a closing fence, prose after
LeadingProse == {<<>>, <<"H", "i", ":", "\n">>, <<" ", "\n">>}
OpeningFences ==
    {<<>>, <<BT, BT, BT, "\n">>, <<BT, BT, BT, "j", "s", "o", "n", "\n">>, <<BT, BT>>}
ResponseBodies ==
    {<<"{", "members:good", "}">>,
     <<"{", "members:good">>,
     <<"members:good", "}">>,
     <<"members:good">>,
     <<"}", "members:good", "{">>,
     <<"{", "members:good", "}", " ", "{", "members:hinted", "}">>,
     <<"{", " ", "{", "members:good", "}", " ", "}">>,
     <<"{", " ", "members:short", "\n", "}">>}
ClosingFences == {<<>>, <<"\n", BT, BT, BT>>, <<BT, BT>>}
TrailingProse == {<<>>, <<"\n", "o", "k">>, <<"\n">>}

ResponseTexts ==
    {a \o b \o c \o d \o e :
        a \in LeadingProse, b \in OpeningFences, c \in ResponseBodies,
        d \in ClosingFences, e \in TrailingProse}

InitClean ==
    /\ max_calls = MaxQuota
    /\ period = MaxPeriod
    /\ calls = <<>>
    /\ pc = "respond"
    /\ mailbox = {}
    /\ marked = {}
    /\ gmail_label_name = DefaultLabelName
    /\ label_id = NoLabelId
    /\ messages = <<>>
    /\ idx = 0
    /\ sheet_data = <<>>
    /\ transaction_info = TRUE
    /\ attempt_number = 1
    /\ model_response \in ResponseTexts
    /\ exception = "none"
    /\ outcome = [m \in Msgs |-> "NONE"]
    /\ labelLog = <<>>
    /\ warned = {}
    /\ markedAtStart = {}
    /\ attemptLog = <<>>
    /\ waitLog = <<>>
    /\ last_text = <<>>
    /\ recorded = 0
    /\ started = 0
    /\ InitThreads
    /\ InitRun
    /\ InitFn /\ InitMail /\ InitRegistry

\* process_transaction, lines 259-288: the text is cleaned, parsed and
\* validated; the row, or None, is returned
clean_and_validate ==
    /\ pc = "respond"
    /\ cleaned_response' = clean_json_response(model_response)
    /\ returned_row' = normalize_response(model_response)
    /\ pc' = "returned"
    /\ UNCHANGED <<envVars, limiterVars, label_id, messages, idx, sheet_data,
                   transaction_info, attempt_number, model_response, exception, histVars,
                   threadVars, runVars, raw_data, key_order, mailVars, regVars>>

NextClean == clean_and_validate

SpecClean == InitClean /\ [][NextClean]_vars

\* the positions of the character c in the text s
Positions(s, c) == {k \in 1..Len(s) : s[k] = c}

\* the text s from its first opening brace to its last closing brace
BraceSpan(s) ==
    LET first == CHOOSE k \in Positions(s, "{") : \A j \in Positions(s, "{") : k <= j
        last == CHOOSE k \in Positions(s, "}") : \A j \in Positions(s, "}") : j <= k
    IN  [k \in 1..(last - first + 1) |-> s[first + k - 1]]

\* s holds an opening brace and a closing brace after it
HasBraces(s) ==
    \E i \in Positions(s, "{") : \E j \in Positions(s, "}") : i < j

C30_Original ==
    /\ Len(calls) <= max_calls
    /\ \A k \in 1..(Len(calls) - 1) : calls[k] >= calls[k + 1]


(***************************************************************************)
(* SpecFromDict: Transaction.from_dict and to_sheet_row on dictionaries    *)
(* whose keys were inserted in different orders.                           *)
(***************************************************************************)
\* the columns of a sheet row
SheetOrder == <<"date", "time", "merchant", "amount", "currency", "category", "account">>

Reverse(s) == [k \in 1..Len(s) |-> s[Len(s) + 1 - k]]
Rotate(s, n) == [k \in 1..Len(s) |-> s[((k - 1 + n) % Len(s)) + 1]]

\* the orders in which the seven keys are inserted: the rotations of the sheet
\* order and of its reverse
KeyOrders ==
    {Rotate(SheetOrder, n) : n \in 0..6} \cup {Rotate(Reverse(SheetOrder), n) : n \in 0..6}

\* the dictionary with the values of d and the keys in the given order, as the
\* sequence of its items
items(d, order) == [k \in 1..Len(order) |-> <<order[k], d[order[k]]>>]

\* cls(**data): every item is bound to the field of its name
keyword_arguments(kv) ==
    [f \in {kv[k][1] : k \in 1..Len(kv)} |->
        kv[CHOOSE k \in 1..Len(kv) : kv[k][1] = f][2]]

\* the dictionaries with all seven keys
FullObjects == {d \in RawObjects : DOMAIN d = FieldNames}

InitFromDict ==
    /\ max_calls = MaxQuota
    /\ period = MaxPeriod
    /\ calls = <<>>
    /\ pc = "respond"
    /\ InitProcessData
    /\ gmail_label_name = DefaultLabelName
    /\ InitThreads
    /\ InitRun
    /\ cleaned_response = <<>>
    /\ raw_data \in FullObjects
    /\ returned_row = None
    /\ key_order \in KeyOrders
    /\ InitMail /\ InitRegistry

\* Transaction.from_dict(data).to_sheet_row(); a ValidationError gives None
from_dict_to_sheet_row ==
    /\ pc = "respond"
    /\ LET data == keyword_arguments(items(raw_data, key_order))
       IN  returned_row' = IF validates(data) THEN to_sheet_row(from_dict(data)) ELSE None
    /\ pc' = "returned"
    /\ UNCHANGED <<envVars, limiterVars, label_id, messages, idx, sheet_data,
                   transaction_info, attempt_number, model_response, exception, histVars,
                   threadVars, runVars, cleaned_response, raw_data, key_order, mailVars, regVars>>

NextFromDict == from_dict_to_sheet_row

SpecFromDict == InitFromDict /\ [][NextFromDict]_vars

\* C31: to_sheet_row of a validated Transaction has exactly seven elements, in
\* the order date, time, merchant, amount, currency, category, account, each
\* the value of the key of that name (the currency in upper case), whatever the
\* order in which the keys of the dictionary were inserted.
C31_RowOrderIsFixed ==
    pc = "returned" =>
       /\ returned_row # None <=> validates(raw_data)
       /\ returned_row # None =>
             /\ Len(returned_row) = 7
             /\ \A k \in 1..7 :
                   returned_row[k] = IF SheetOrder[k] = "currency"
                                     THEN upper(raw_data["currency"])
                                     ELSE raw_data[SheetOrder[k]]

\* the keys were inserted in the reverse of the sheet order, rotated, and the
\* row is in the sheet order
C31_Witness ==
    /\ pc = "returned"
    /\ key_order = <<"merchant", "time", "date", "account", "category", "currency", "amount">>
    /\ returned_row = <<GoodObject.date, GoodObject.time, GoodObject.merchant,
                        GoodObject.amount, <<"E", "U", "R">>, GoodObject.category,
                        GoodObject.account>>


(***************************************************************************)
(* SpecBody: mail.py, get_email_body on trees of message parts.            *)
(***************************************************************************)
\* the greatest number of parts a nested multipart part lists
MaxParts == 2

\* the contents of the text parts
Contents == {<<"o", "n", "e">>, <<"t", "w", "o">>}

\* base64.urlsafe_b64encode of a content, and the decoding of line 145
b64encode(content) == <<"base64", content>>
b64decode(data) == data[2]

\* a part without parts of its own
Leaf(type, content) == [mimeType |-> type, data |-> b64encode(content), parts |-> <<>>]
\* a part that lists other parts
Multipart(type, children) == [mimeType |-> type, data |-> <<>>, parts |-> children]

SeqsUpTo(S, n) == UNION {[1..k -> S] : k \in 1..n}

LeafParts == {Leaf(t, c) : t \in {"text/plain", "text/html"}, c \in Contents}
InnerParts == {Multipart("multipart/alternative", ch) : ch \in SeqsUpTo(LeafParts, MaxParts)}
\* the root holds one or two parts, each a leaf or a nested multipart
RootParts ==
    {Multipart("multipart/mixed", ch) : ch \in SeqsUpTo(LeafParts \cup InnerParts, 2)}

\* message['payload'] of the messages of this model
Payloads == LeafParts \cup InnerParts \cup RootParts

InitBody ==
    /\ max_calls = MaxQuota
    /\ period = MaxPeriod
    /\ calls = <<>>
    /\ pc = "get_body"
    /\ InitProcessData
    /\ gmail_label_name = DefaultLabelName
    /\ InitThreads
    /\ InitRun
    /\ InitFn
    /\ payload \in Payloads
    /\ parts = <<>>
    /\ email_body = None
    /\ InitRegistry

\* get_email_body, lines 134-140: the message is fetched, parts = [payload]
get_message ==
    /\ pc = "get_body"
    /\ parts' = <<payload>>
    /\ pc' = "walk"
    /\ UNCHANGED <<envVars, limiterVars, label_id, messages, idx, sheet_data,
                   transaction_info, attempt_number, model_response, exception, histVars,
                   threadVars, runVars, fnVars, regVars, payload, email_body>>

\* get_email_body, lines 141-146: one turn of the while loop.  parts.pop()
\* takes the last element, the parts of the popped part are put at the end
pop_part ==
    /\ pc = "walk"
    /\ parts # <<>>
    /\ LET part == parts[Len(parts)]
           rest == SubSeq(parts, 1, Len(parts) - 1)
       IN  /\ parts' = IF part.parts # <<>> THEN rest \o part.parts ELSE rest
           /\ IF part.mimeType = "text/html"
              THEN email_body' = b64decode(part.data) /\ pc' = "body_returned"
              ELSE email_body' = email_body /\ pc' = "walk"
    /\ UNCHANGED <<envVars, limiterVars, label_id, messages, idx, sheet_data,
                   transaction_info, attempt_number, model_response, exception, histVars,
                   threadVars, runVars, fnVars, regVars, payload>>

\* get_email_body, lines 141 and 147: the list is empty, None is returned
return_no_body ==
    /\ pc = "walk"
    /\ parts = <<>>
    /\ email_body' = None
    /\ pc' = "body_returned"
    /\ UNCHANGED <<envVars, limiterVars, label_id, messages, idx, sheet_data,
                   transaction_info, attempt_number, model_response, exception, histVars,
                   threadVars, runVars, fnVars, regVars, payload, parts>>

NextBody == get_message \/ pop_part \/ return_no_body

SpecBody == InitBody /\ [][NextBody]_vars

\* the content of the first text/html part of a depth-first walk that visits
\* the parts of each part in their listed order, or None
RECURSIVE FirstHtmlListed(_)
FirstHtmlListed(part) ==
    IF part.mimeType = "text/html" THEN b64decode(part.data)
    ELSE LET found == [k \in 1..Len(part.parts) |-> FirstHtmlListed(part.parts[k])]
             hits == {k \in 1..Len(part.parts) : found[k] # None}
         IN  IF hits = {} THEN None ELSE found[SetMin(hits)]

\* C34 (as stated): get_email_body returns the content of the text/html part
\* that comes first in a depth-first walk visiting the parts of each part in
\* their listed order, and nothing when the tree has no text/html part.
C34_Original ==
    pc = "body_returned" => email_body = FirstHtmlListed(payload)


(***************************************************************************)
(* SpecRegistry: rate_limiter.py, threads that call get_rate_limiter,      *)
(* get_all_rate_limiter_stats, reset_all_rate_limiters and functions       *)
(* behind rate_limit.  The windows of the limiters are left out: whether   *)
(* _wait_if_needed sleeps is a free choice here.                           *)
(***************************************************************************)
\* the arguments max_calls and period of the calls of get_rate_limiter
LimiterArgs == {[max_calls |-> q, period |-> MaxPeriod] : q \in {1, MaxQuota}}

\* name in _rate_limiters
has_limiter(d, n) == \E k \in 1..Len(d) : d[k].name = n

\* _rate_limiters[name]
limiter_of(d, n) == d[CHOOSE k \in 1..Len(d) : d[k].name = n].limiter

\* _rate_limiters[name] = limiter: a new key is put at the end, a key that is
\* there keeps its place and gets the new value
set_limiter(d, n, l) ==
    IF has_limiter(d, n)
    THEN [k \in 1..Len(d) |-> IF d[k].name = n THEN [name |-> n, limiter |-> l] ELSE d[k]]
    ELSE Append(d, [name |-> n, limiter |-> l])

\* AdaptiveRateLimiter(max_calls, period): a new object; serial tells the
\* objects apart
new_limiter(a, serial) ==
    [max_calls |-> a.max_calls, period |-> a.period, serial |-> serial]

\* variant: the registry is entered without a look at its lock
registry_lock_ignored(holder) == TRUE

\* with _rate_limiter_lock: the lock can be taken when no thread holds it
registry_lock_free(holder) == holder = 0

\* variant: the lock stays with its holder when the with block is left
lock_kept(holder) == holder

\* the end of a with block releases the lock
lock_released(holder) == 0

\* everything but the registry and the count of finished calls
restVars ==
    <<envVars, limiterVars, procVars, histVars, lock, tpc, sleep_left, admitted,
      runVars, fnVars, mailVars>>

Begin(t, op, n, a) ==
    /\ frames[t].op = "idle"
    /\ ncalls[t] < MaxCallsPerThread
    /\ frames' = [frames EXCEPT ![t] =
                     [op |-> op, at |-> "lock", name |-> n, args |-> a, todo |-> <<>>]]
    /\ UNCHANGED <<restVars, ncalls, rate_limiter_lock, rate_limiters, limiter_locks,
                   constructed, handed>>

\* a thread calls get_rate_limiter(name, max_calls, period)
call_get_rate_limiter(t, n, a) == Begin(t, "get_rate_limiter", n, a)

\* a thread calls get_all_rate_limiter_stats()
call_get_all_rate_limiter_stats(t) == Begin(t, "get_all_rate_limiter_stats", "", NoArgs)

\* a thread calls reset_all_rate_limiters()
call_reset_all_rate_limiters(t) == Begin(t, "reset_all_rate_limiters", "", NoArgs)

\* a thread calls a function decorated with rate_limit under the name n; the
\* decorator has registered the limiter when the function was defined
call_wrapper(t, n) ==
    /\ has_limiter(rate_limiters, n)
    /\ Begin(t, "wrapper", n, NoArgs)

\* lines 149, 228 and 260: with _rate_limiter_lock.  The functions that walk
\* the dictionary start at its first item
enter_registry(t) ==
    /\ frames[t].op \in {"get_rate_limiter", "get_all_rate_limiter_stats",
                         "reset_all_rate_limiters"}
    /\ frames[t].at = "lock"
    /\ registry_lock_free(rate_limiter_lock)
    /\ rate_limiter_lock' = t
    /\ frames' = [frames EXCEPT ![t].at = "in",
                                ![t].todo = [k \in 1..Len(rate_limiters) |-> rate_limiters[k].name]]
    /\ UNCHANGED <<restVars, ncalls, rate_limiters, limiter_locks, constructed, handed>>

\* get_rate_limiter, line 150: if name not in _rate_limiters
check_name(t) ==
    /\ frames[t].op = "get_rate_limiter"
    /\ frames[t].at = "in"
    /\ frames' = [frames EXCEPT ![t].at =
                     IF has_limiter(rate_limiters, frames[t].name) THEN "return" ELSE "create"]
    /\ UNCHANGED <<restVars, ncalls, rate_limiter_lock, rate_limiters, limiter_locks,
                   constructed, handed>>

\* get_rate_limiter, line 151: _rate_limiters[name] = AdaptiveRateLimiter(max_calls, period)
create_limiter(t) ==
    /\ frames[t].op = "get_rate_limiter"
    /\ frames[t].at = "create"
    /\ LET l == new_limiter(frames[t].args, Len(constructed) + 1)
       IN  /\ rate_limiters' = set_limiter(rate_limiters, frames[t].name, l)
           /\ constructed' = Append(constructed, [name |-> frames[t].name, limiter |-> l])
    /\ frames' = [frames EXCEPT ![t].at = "return"]
    /\ UNCHANGED <<restVars, ncalls, rate_limiter_lock, limiter_locks, handed>>

\* get_rate_limiter, line 155: return _rate_limiters[name], and the lock is released
return_limiter(t) ==
    /\ frames[t].op = "get_rate_limiter"
    /\ frames[t].at = "return"
    /\ handed' = handed \cup {[name |-> frames[t].name, args |-> frames[t].args,
                               limiter |-> limiter_of(rate_limiters, frames[t].name)]}
    /\ rate_limiter_lock' = lock_released(rate_limiter_lock)
    /\ frames' = [frames EXCEPT ![t] = IdleFrame]
    /\ ncalls' = [ncalls EXCEPT ![t] = @ + 1]
    /\ UNCHANGED <<restVars, rate_limiters, limiter_locks, constructed>>

\* get_current_usage, line 107, and reset, line 124, called for the next
\* limiter of the dictionary: with self.lock
enter_limiter(t) ==
    /\ frames[t].op \in {"get_all_rate_limiter_stats", "reset_all_rate_limiters"}
    /\ frames[t].at = "in"
    /\ frames[t].todo # <<>>
    /\ limiter_locks[frames[t].todo[1]] = 0
    /\ limiter_locks' = [limiter_locks EXCEPT ![frames[t].todo[1]] = t]
    /\ frames' = [frames EXCEPT ![t].at = "limiter"]
    /\ UNCHANGED <<restVars, ncalls, rate_limiter_lock, rate_limiters, constructed, handed>>

\* get_current_usage, lines 108-120, and reset, lines 125-126: the with block
\* of the limiter is left
leave_limiter(t) ==
    /\ frames[t].op \in {"get_all_rate_limiter_stats", "reset_all_rate_limiters"}
    /\ frames[t].at = "limiter"
    /\ limiter_locks' = [limiter_locks EXCEPT ![frames[t].todo[1]] = lock_released(@)]
    /\ frames' = [frames EXCEPT ![t].at = "in", ![t].todo = Tail(@)]
    /\ UNCHANGED <<restVars, ncalls, rate_limiter_lock, rate_limiters, constructed, handed>>

\* get_all_rate_limiter_stats, line 232, and reset_all_rate_limiters, line 263:
\* the dictionary has been walked, the lock of the registry is released
leave_registry(t) ==
    /\ frames[t].op \in {"get_all_rate_limiter_stats", "reset_all_rate_limiters"}
    /\ frames[t].at = "in"
    /\ frames[t].todo = <<>>
    /\ rate_limiter_lock' = lock_released(rate_limiter_lock)
    /\ frames' = [frames EXCEPT ![t] = IdleFrame]
    /\ ncalls' = [ncalls EXCEPT ![t] = @ + 1]
    /\ UNCHANGED <<restVars, rate_limiters, limiter_locks, constructed, handed>>

\* rate_limit.wrapper, line 187, and _wait_if_needed, lines 78-97: the lock of
\* the limiter is taken; the thread goes on to record its call or sleeps first,
\* holding the lock
wrapper_enter(t, sleeps) ==
    /\ frames[t].op = "wrapper"
    /\ frames[t].at = "lock"
    /\ limiter_locks[frames[t].name] = 0
    /\ limiter_locks' = [limiter_locks EXCEPT ![frames[t].name] = t]
    /\ frames' = [frames EXCEPT ![t].at = IF sleeps THEN "sleep" ELSE "record"]
    /\ UNCHANGED <<restVars, ncalls, rate_limiter_lock, rate_limiters, constructed, handed>>

\* _wait_if_needed, line 92: time.sleep returns
wrapper_wakes(t) ==
    /\ frames[t].op = "wrapper"
    /\ frames[t].at = "sleep"
    /\ frames' = [frames EXCEPT ![t].at = "record"]
    /\ UNCHANGED <<restVars, ncalls, rate_limiter_lock, rate_limiters, limiter_locks,
                   constructed, handed>>

\* _wait_if_needed, lines 99-103: the call is recorded and the lock released
wrapper_leaves(t) ==
    /\ frames[t].op = "wrapper"
    /\ frames[t].at = "record"
    /\ limiter_locks' = [limiter_locks EXCEPT ![frames[t].name] = lock_released(@)]
    /\ frames' = [frames EXCEPT ![t].at = "func"]
    /\ UNCHANGED <<restVars, ncalls, rate_limiter_lock, rate_limiters, constructed, handed>>

\* rate_limit.wrapper, line 188: the function runs and returns
wrapper_returns(t) ==
    /\ frames[t].op = "wrapper"
    /\ frames[t].at = "func"
    /\ frames' = [frames EXCEPT ![t] = IdleFrame]
    /\ ncalls' = [ncalls EXCEPT ![t] = @ + 1]
    /\ UNCHANGED <<restVars, rate_limiter_lock, rate_limiters, limiter_locks,
                   constructed, handed>>

\* the steps of a thread inside a call
StepRegistry(t) ==
    \/ enter_registry(t)
    \/ check_name(t)
    \/ create_limiter(t)
    \/ return_limiter(t)
    \/ enter_limiter(t)
    \/ leave_limiter(t)
    \/ leave_registry(t)
    \/ \E sleeps \in BOOLEAN : wrapper_enter(t, sleeps)
    \/ wrapper_wakes(t)
    \/ wrapper_leaves(t)
    \/ wrapper_returns(t)

NextRegistry ==
    \E t \in Threads :
       \/ \E n \in LimiterNames, a \in LimiterArgs : call_get_rate_limiter(t, n, a)
       \/ call_get_all_rate_limiter_stats(t)
       \/ call_reset_all_rate_limiters(t)
       \/ \E n \in LimiterNames : call_wrapper(t, n)
       \/ StepRegistry(t)

InitRegistryThreads ==
    /\ max_calls = MaxQuota
    /\ period = MaxPeriod
    /\ calls = <<>>
    /\ InitProcess
    /\ InitThreads
    /\ InitRun
    /\ InitFn
    /\ InitMail
    /\ InitRegistry

SpecRegistry == InitRegistryThreads /\ [][NextRegistry]_vars

\* the scheduler runs every thread that can take a step, and time.sleep ends
FairSpecRegistry == SpecRegistry /\ \A t \in Threads : WF_vars(StepRegistry(t))

\* the limiters whose lock thread t holds
HeldLimiters(t) == {n \in LimiterNames : limiter_locks[n] = t}

\* the calls that take the lock of the registry
RegistryCalls ==
    {"get_rate_limiter", "get_all_rate_limiter_stats", "reset_all_rate_limiters"}

\* a thread takes the lock of a limiter either alone, in the wrapper, or after
\* the lock of the registry; it never asks for the lock of the registry, or for
\* the lock of a second limiter, while it holds the lock of a limiter
LockOrder ==
    \A t \in Threads :
       /\ Cardinality(HeldLimiters(t)) <= 1
       /\ rate_limiter_lock = t => frames[t].op \in RegistryCalls
       /\ (HeldLimiters(t) # {} /\ rate_limiter_lock # t) =>
             (frames[t].op = "wrapper" /\ frames[t].at \in {"sleep", "record"})
       /\ (frames[t].op \in RegistryCalls /\ frames[t].at = "lock") => HeldLimiters(t) = {}

\* C39: the locks are always taken in the order registry, then limiter; while
\* any call is under way some thread can take a step (no deadlock); and every
\* call that has begun returns, provided the threads are scheduled and every
\* time.sleep ends.
C39_NoDeadlock ==
    /\ [](LockOrder)
    /\ []((\E t \in Threads : frames[t].op # "idle") =>
             ENABLED (\E t \in Threads : StepRegistry(t)))
    /\ \A t \in Threads : (frames[t].op # "idle") ~> (frames[t].op = "idle")

\* one thread sleeps in _wait_if_needed with the lock of a limiter while another
\* holds the lock of the registry and waits for the lock of that limiter
C39_Witness ==
    \E t1, t2 \in Threads :
       /\ frames[t1].op = "wrapper"
       /\ frames[t1].at = "sleep"
       /\ rate_limiter_lock = t2
       /\ frames[t2].at = "in"
       /\ frames[t2].todo # <<>>
       /\ limiter_locks[frames[t2].todo[1]] = t1

\* C40: for each name at most one limiter is ever constructed and the
\* dictionary holds at most one item; an item of the dictionary is never
\* replaced; and every call of get_rate_limiter returns the one limiter
\* constructed for its name, which is the one in the dictionary, whatever
\* max_calls and period the call was made with.
C40_OneLimiterPerName ==
    /\ [](\A n \in LimiterNames :
             /\ Cardinality({k \in 1..Len(constructed) : constructed[k].name = n}) <= 1
             /\ Cardinality({k \in 1..Len(rate_limiters) : rate_limiters[k].name = n}) <= 1)
    /\ [](\A h \in handed :
             /\ [name |-> h.name, limiter |-> h.limiter] \in Range(constructed)
             /\ has_limiter(rate_limiters, h.name)
             /\ limiter_of(rate_limiters, h.name) = h.limiter)
    /\ [][\A k \in 1..Len(rate_limiters) :
             Len(rate_limiters') >= k /\ rate_limiters'[k] = rate_limiters[k]]_vars

\* two calls with the same name and different arguments returned the same
\* limiter, whose max_calls is not that of the later call
C40_Witness ==
    \E h1, h2 \in handed :
       /\ h1.name = h2.name
       /\ h1.args # h2.args
       /\ h1.limiter = h2.limiter
       /\ h2.limiter.max_calls # h2.args.max_calls
====
